---- MODULE Spec2Model ----
(***************************************************************************)
(* Model of the workload aggregation and assignment engine of gg:          *)
(*   - SuggestAssigneeAndReviewer        (internal/core/app/app.go)         *)
(*   - the GitLab webhook handler        (adapters/primary/http)            *)
(*   - fetchMRApprovals, batchGetProjects (errgroup fan-out / fan-in)       *)
(*   - InMemoryCache                     (adapters/secondary/cache)         *)
(*   - CachedRepository.GetUserByUsername (repository/cached)               *)
(*   - isUserInvolvedInMR, hasUserApprovedMR, isUserAvailable (app.go)      *)
(*   - the engine entry points AnalyzeWorkload, AnalyzeActiveMRs,           *)
(*     AnalyzeMyReviewWorkload, GetMergeRequestsWithStatus and              *)
(*     GetMyReviewWorkloadWithStatus (app.go)                               *)
(* Every component has its own specification over the shared variables;    *)
(* the variables of the other components stay at their idle values.        *)
(*                                                                         *)
(* Go strings are sequences of one-character strings, a nil pointer is the *)
(* empty sequence <<>> and a non-nil pointer to v is <<v>>.                *)
(***************************************************************************)
EXTENDS Integers, Sequences, FiniteSets, TLC

VARIABLES
    \* SuggestAssigneeAndReviewer: arguments and results of one call
    sg_pc, sg_mr, sg_workloads, sg_assignee, sg_reviewer, sg_err,
    \* handleGitLabWebhook: one request
    wh_pc, wh_payload, wh_mr, wh_workloads, wh_assignee, wh_reviewer,
    wh_calls, wh_status,
    \* fetchMRApprovals: one batch (errgroup with context, mutex, result map)
    fa_pc, fa_mrs, fa_fail, fa_next, fa_task, fa_got, fa_failed, fa_ctx,
    fa_gerr, fa_mu, fa_map, fa_ret,
    \* batchGetProjects: one batch
    bp_pc, bp_ids, bp_fail, bp_next, bp_task, bp_got, bp_ctx, bp_gerr, bp_mu,
    bp_map, bp_ret,
    \* batchGetUsers
    bu_pc, bu_ids, bu_fail, bu_next, bu_task, bu_got, bu_wg, bu_errChan,
    bu_closed, bu_mu, bu_map, bu_ret,
    \* InMemoryCache: the two sync.Maps, the callers of StoreUser, the history
    c_byID, c_byUsername, c_pc, c_arg, c_log, c_overlap, c_out, c_range,
    \* CachedRepository.GetUserByUsername: one caller, call after call, over
    \* the cache maps c_byID and c_byUsername
    cr_pc, cr_n, cr_username, cr_pre, cr_hit, cr_called, cr_ret, cr_prev,
    cr_mark, cr_other,
    \* the classifier functions of app.go: the arguments and result of one call
    cl_pc, cl_op, cl_mr, cl_userID, cl_approvals, cl_user, cl_out,
    \* one call of an engine entry point: the entry point, what the gateway
    \* holds and which of its calls fail, the position in the code, the
    \* gateway calls made so far, the local variables and the returned value
    eg_op, eg_env, eg_pc, eg_calls, eg_loc, eg_ret,
    \* the sorting and date functions of app.go: the function, the arguments
    \* and the result of one call
    fn_pc, fn_op, fn_arg, fn_out

sgVars == <<sg_pc, sg_mr, sg_workloads, sg_assignee, sg_reviewer, sg_err>>

whVars == <<wh_pc, wh_payload, wh_mr, wh_workloads, wh_assignee, wh_reviewer,
            wh_calls, wh_status>>

faVars == <<fa_pc, fa_mrs, fa_fail, fa_next, fa_task, fa_got, fa_failed, fa_ctx,
            fa_gerr, fa_mu, fa_map, fa_ret>>

bpVars == <<bp_pc, bp_ids, bp_fail, bp_next, bp_task, bp_got, bp_ctx, bp_gerr, bp_mu,
            bp_map, bp_ret>>

cVars == <<c_byID, c_byUsername, c_pc, c_arg, c_log, c_overlap, c_out, c_range>>

crVars == <<cr_pc, cr_n, cr_username, cr_pre, cr_hit, cr_called, cr_ret, cr_prev,
            cr_mark, cr_other>>

clVars == <<cl_pc, cl_op, cl_mr, cl_userID, cl_approvals, cl_user, cl_out>>

egVars == <<eg_op, eg_env, eg_pc, eg_calls, eg_loc, eg_ret>>

fnVars == <<fn_pc, fn_op, fn_arg, fn_out>>

buVars == <<bu_pc, bu_ids, bu_fail, bu_next, bu_task, bu_got, bu_wg, bu_errChan,
            bu_closed, bu_mu, bu_map, bu_ret>>

vars == <<sgVars, whVars, faVars, bpVars, cVars, crVars, clVars, egVars, fnVars, buVars>>

sgOthers == <<whVars, faVars, bpVars, cVars, crVars, clVars, egVars, fnVars, buVars>>
whOthers == <<sgVars, faVars, bpVars, cVars, crVars, clVars, egVars, fnVars, buVars>>
faOthers == <<sgVars, whVars, bpVars, cVars, crVars, clVars, egVars, fnVars, buVars>>
bpOthers == <<sgVars, whVars, faVars, cVars, crVars, clVars, egVars, fnVars, buVars>>
cOthers == <<sgVars, whVars, faVars, bpVars, crVars, clVars, egVars, fnVars, buVars>>
crOthers == <<sgVars, whVars, faVars, bpVars, c_pc, c_arg, c_log, c_overlap, c_out, c_range, clVars, egVars, fnVars, buVars>>
clOthers == <<sgVars, whVars, faVars, bpVars, cVars, crVars, egVars, fnVars, buVars>>
egOthers == <<sgVars, whVars, bpVars, cVars, crVars, clVars, fnVars, buVars>>
fnOthers == <<sgVars, whVars, faVars, bpVars, cVars, crVars, clVars, egVars, buVars>>
buOthers == <<sgVars, whVars, faVars, bpVars, cVars, crVars, clVars, egVars, fnVars>>

(***************************************************************************)
(* Bounds                                                                  *)
(***************************************************************************)
MaxWorkloads == 3
MaxMRCount == 1
MaxCommits == 1
MaxWebhookWorkloads == 2
MaxBatch == 3
MaxProjectID == 4
MaxStores == 2
MaxLookups == 3
MaxReviewers == 2
MaxApprovals == 2
MaxMessageLen == 4
MaxOpenMRs == 2
NumCacheCallers == 2

(***************************************************************************)
(* Strings                                                                 *)
(***************************************************************************)
UpperLetters ==
    <<"A","B","C","D","E","F","G","H","I","J","K","L","M",
      "N","O","P","Q","R","S","T","U","V","W","X","Y","Z">>

LowerLetters ==
    <<"a","b","c","d","e","f","g","h","i","j","k","l","m",
      "n","o","p","q","r","s","t","u","v","w","x","y","z">>

\* the lower-case letter of every upper-case ASCII letter
LowerOf ==
    [c \in {UpperLetters[i] : i \in 1..26} |->
        LowerLetters[CHOOSE i \in 1..26 : UpperLetters[i] = c]]

\* unicode.ToLower on one character (ASCII letters; others map to themselves)
LowerChar(c) == IF c \in DOMAIN LowerOf THEN LowerOf[c] ELSE c

\* strings.ToLower
ToLower(s) == [i \in 1..Len(s) |-> LowerChar(s[i])]

\* strings.Contains
Contains(s, substr) ==
    \E i \in 0..(Len(s) - Len(substr)) : SubSeq(s, i + 1, i + Len(substr)) = substr

(***************************************************************************)
(* Domain values                                                           *)
(***************************************************************************)
Nil == <<>>
Ptr(v) == <<v>>

StatusAvailable == [Message |-> <<>>, Availability |-> <<"a","v","a","i","l","a","b","l","e">>]
StatusBusy == [Message |-> <<>>, Availability |-> <<"B","u","s","y">>]
StatusOOO == [Message |-> <<"O","o","O">>, Availability |-> <<>>]
StatusVacation == [Message |-> <<"o","n"," ","V","a","c","a","t","i","o","n">>, Availability |-> <<>>]

User(id, name, status) ==
    [ID |-> id, Username |-> name, Email |-> name \o <<"@","x">>, Status |-> status]

Alice == User(1, <<"a">>, StatusAvailable)
Bob == User(2, <<"b">>, StatusAvailable)
Carol == User(3, <<"c">>, StatusAvailable)
BobBusy == User(2, <<"b">>, StatusBusy)
CarolOOO == User(3, <<"c">>, StatusOOO)
Dan == User(4, <<"d">>, StatusAvailable)

\* domain.MergeRequest
MergeRequest(iid, pid, author, assignee, reviewers, draft) ==
    [IID |-> iid, ProjectID |-> pid, Author |-> author, Assignee |-> assignee,
     Reviewers |-> reviewers, Draft |-> draft]

\* domain.UserWorkload
UserWorkload(user, mrCount, commits) ==
    [User |-> user, MRCount |-> mrCount, Commits |-> commits]

(***************************************************************************)
(* Idle values: what the variables of a component hold in the              *)
(* specifications of the other components.                                 *)
(***************************************************************************)
NoMergeRequest == MergeRequest(0, 0, Nil, Nil, <<>>, FALSE)

SuggestIdle ==
    /\ sg_pc = "idle"
    /\ sg_mr = NoMergeRequest
    /\ sg_workloads = <<>>
    /\ sg_assignee = Nil
    /\ sg_reviewer = Nil
    /\ sg_err = "nil"

WebhookIdle ==
    /\ wh_pc = "idle"
    /\ wh_payload = <<>>
    /\ wh_mr = Nil
    /\ wh_workloads = <<>>
    /\ wh_assignee = Nil
    /\ wh_reviewer = Nil
    /\ wh_calls = <<>>
    /\ wh_status = 0

FetchIdle ==
    /\ fa_pc = "idle"
    /\ fa_mrs = <<>>
    /\ fa_fail = {}
    /\ fa_next = 0
    /\ fa_task = <<>>
    /\ fa_got = <<>>
    /\ fa_failed = {}
    /\ fa_ctx = FALSE
    /\ fa_gerr = 0
    /\ fa_mu = 0
    /\ fa_map = <<>>
    /\ fa_ret = Nil

ProjectsIdle ==
    /\ bp_pc = "idle"
    /\ bp_ids = <<>>
    /\ bp_fail = {}
    /\ bp_next = 0
    /\ bp_task = <<>>
    /\ bp_got = <<>>
    /\ bp_ctx = FALSE
    /\ bp_gerr = 0
    /\ bp_mu = 0
    /\ bp_map = <<>>
    /\ bp_ret = Nil

CacheIdle ==
    /\ c_byID = <<>>
    /\ c_byUsername = <<>>
    /\ c_pc = <<>>
    /\ c_arg = <<>>
    /\ c_log = <<>>
    /\ c_overlap = FALSE
    /\ c_out = Nil
    /\ c_range = Nil

CachedRepoIdle ==
    /\ cr_pc = "idle"
    /\ cr_n = 0
    /\ cr_username = <<>>
    /\ cr_pre = <<>>
    /\ cr_hit = FALSE
    /\ cr_called = 0
    /\ cr_ret = Nil
    /\ cr_prev = Nil
    /\ cr_mark = 0
    /\ cr_other = <<>>

ClassifierIdle ==
    /\ cl_pc = "idle"
    /\ cl_op = "none"
    /\ cl_mr = Nil
    /\ cl_userID = 0
    /\ cl_approvals = [nil |-> TRUE, elems |-> <<>>]
    /\ cl_user = Nil
    /\ cl_out = Nil

EngineIdle ==
    /\ eg_op = "none"
    /\ eg_env = <<>>
    /\ eg_pc = "idle"
    /\ eg_calls = <<>>
    /\ eg_loc = <<>>
    /\ eg_ret = Nil

FunctionIdle ==
    /\ fn_pc = "idle"
    /\ fn_op = "none"
    /\ fn_arg = <<>>
    /\ fn_out = Nil

UsersIdle ==
    /\ bu_pc = "idle"
    /\ bu_ids = <<>>
    /\ bu_fail = {}
    /\ bu_next = 0
    /\ bu_task = <<>>
    /\ bu_got = <<>>
    /\ bu_wg = 0
    /\ bu_errChan = <<>>
    /\ bu_closed = FALSE
    /\ bu_mu = 0
    /\ bu_map = <<>>
    /\ bu_ret = Nil

IdleBut(c) ==
    /\ (c # "sg" => SuggestIdle)
    /\ (c # "wh" => WebhookIdle)
    /\ (c # "fa" => FetchIdle)
    /\ (c # "bp" => ProjectsIdle)
    /\ (c # "c" => CacheIdle)
    /\ (c # "cr" => CachedRepoIdle)
    /\ (c # "cl" => ClassifierIdle)
    /\ (c # "eg" => EngineIdle)
    /\ (c # "fn" => FunctionIdle)
    /\ (c # "bu" => UsersIdle)

(***************************************************************************)
(* Helpers of app.go                                                       *)
(***************************************************************************)
\* mutant: the comparisons are case-sensitive
isUserAvailableCaseSensitive(user) ==
    LET status == user.Status.Message
        availability == user.Status.Availability
    IN  /\ ~Contains(status, <<"o","o","o">>)
        /\ ~Contains(status, <<"v","a","c","a","t","i","o","n">>)
        /\ availability # <<"b","u","s","y">>

isUserAvailable(user) ==
    LET status == ToLower(user.Status.Message)
        availability == ToLower(user.Status.Availability)
    IN  /\ ~Contains(status, <<"o","o","o">>)
        /\ ~Contains(status, <<"v","a","c","a","t","i","o","n">>)
        /\ availability # <<"b","u","s","y">>

\* the loop of isUserInvolvedInMR over mr.Reviewers, from index i on
RECURSIVE IsReviewerFrom(_, _, _)
IsReviewerFrom(reviewers, userID, i) ==
    IF i > Len(reviewers) THEN FALSE
    ELSE IF reviewers[i].ID = userID THEN TRUE
    ELSE IsReviewerFrom(reviewers, userID, i + 1)

\* mutant: the author is not excluded
isUserInvolvedIgnoringAuthor(mr, userID) ==
    IF mr = Nil THEN FALSE
    ELSE IF mr[1].Draft THEN FALSE
    ELSE LET isAssignee == mr[1].Assignee # Nil /\ mr[1].Assignee[1].ID = userID
             isReviewer == IsReviewerFrom(mr[1].Reviewers, userID, 1)
         IN  isAssignee \/ isReviewer

\* isUserInvolvedInMR; mr is a pointer
isUserInvolvedInMR(mr, userID) ==
    IF mr = Nil THEN FALSE
    ELSE IF mr[1].Draft THEN FALSE
    ELSE IF mr[1].Author # Nil /\ mr[1].Author[1].ID = userID THEN FALSE
    ELSE LET isAssignee == mr[1].Assignee # Nil /\ mr[1].Assignee[1].ID = userID
             isReviewer == IsReviewerFrom(mr[1].Reviewers, userID, 1)
         IN  isAssignee \/ isReviewer

\* the loop of hasUserApprovedMR, from index i on
RECURSIVE HasApprovedFrom(_, _, _)
HasApprovedFrom(approvals, userID, i) ==
    IF i > Len(approvals) THEN FALSE
    ELSE IF approvals[i].ID = userID THEN TRUE
    ELSE HasApprovedFrom(approvals, userID, i + 1)

\* mutant: only the first approval is looked at
hasUserApprovedFirstOnly(approvals, userID) ==
    Len(approvals) > 0 /\ approvals[1].ID = userID

\* hasUserApprovedMR; approvals are the elements of the slice (none for a nil
\* slice and for an empty one)
hasUserApprovedMR(approvals, userID) == HasApprovedFrom(approvals, userID, 1)

\* float64(commits) / (1 + float64(mrCount)) as the fraction <<num, den>>
calculateAssigneeScore(commits, mrCount) == <<commits, 1 + mrCount>>

\* scoreI > scoreJ on float64, for positive denominators
ScoreGreater(si, sj) == si[1] * sj[2] > sj[1] * si[2]

\* the two comparators SuggestAssigneeAndReviewer hands to sort.Slice
\* mutant: the comparator with the comparison reversed
LessByScoreAsc(wi, wj) ==
    ScoreGreater(calculateAssigneeScore(wj.Commits, wj.MRCount),
                 calculateAssigneeScore(wi.Commits, wi.MRCount))

LessByScoreDesc(wi, wj) ==
    ScoreGreater(calculateAssigneeScore(wi.Commits, wi.MRCount),
                 calculateAssigneeScore(wj.Commits, wj.MRCount))

\* mutant: most loaded first
LessByMRCountDesc(wi, wj) == wi.MRCount > wj.MRCount

LessByMRCount(wi, wj) == wi.MRCount < wj.MRCount

\* the comparator SortMergeRequestsByPriority hands to sort.Slice: current
\* branch first, then current project, then the later UpdatedAt
\* mutant: the oldest update first
LessByPriorityOldestFirst(wi, wj) ==
    IF wi.IsCurrentBranch /\ ~wj.IsCurrentBranch THEN TRUE
    ELSE IF ~wi.IsCurrentBranch /\ wj.IsCurrentBranch THEN FALSE
    ELSE IF wi.IsCurrentProject /\ ~wj.IsCurrentProject THEN TRUE
    ELSE IF ~wi.IsCurrentProject /\ wj.IsCurrentProject THEN FALSE
    ELSE wi.MergeRequest.UpdatedAt < wj.MergeRequest.UpdatedAt

LessByPriority(wi, wj) ==
    IF wi.IsCurrentBranch /\ ~wj.IsCurrentBranch THEN TRUE
    ELSE IF ~wi.IsCurrentBranch /\ wj.IsCurrentBranch THEN FALSE
    ELSE IF wi.IsCurrentProject /\ ~wj.IsCurrentProject THEN TRUE
    ELSE IF ~wi.IsCurrentProject /\ wj.IsCurrentProject THEN FALSE
    ELSE wi.MergeRequest.UpdatedAt > wj.MergeRequest.UpdatedAt

SortLess(cmp, wi, wj) ==
    IF cmp = "score" THEN LessByScoreDesc(wi, wj)
    ELSE IF cmp = "priority" THEN LessByPriority(wi, wj)
    ELSE LessByMRCount(wi, wj)

\* One pass of the insertion sort that sort.Slice runs on slices of fewer
\* than 12 elements: x moves left while less(x, left neighbour).
RECURSIVE InsertLeft(_, _, _)
InsertLeft(cmp, s, x) ==
    IF s = <<>> \/ ~SortLess(cmp, x, s[Len(s)])
    THEN Append(s, x)
    ELSE Append(InsertLeft(cmp, SubSeq(s, 1, Len(s) - 1), x), s[Len(s)])

RECURSIVE SortSliceFrom(_, _, _)
SortSliceFrom(cmp, sorted, rest) ==
    IF rest = <<>> THEN sorted
    ELSE SortSliceFrom(cmp, InsertLeft(cmp, sorted, Head(rest)), Tail(rest))

\* sort.Slice runs pdqsort_func, which hands slices of at most maxInsertion
\* elements to the insertion sort
maxInsertion == 12

Swap(s, i, j) == [s EXCEPT ![i] = s[j], ![j] = s[i]]

\* order2: the two positions, the one with the smaller element first, and
\* the number of swaps so far
Order2(cmp, s, a, b, swaps) ==
    IF SortLess(cmp, s[b], s[a]) THEN <<b, a, swaps + 1>> ELSE <<a, b, swaps>>

\* choosePivot for a slice of 8 to 49 elements: the median of the elements
\* at one, two and three quarters, and whether no swap was needed to find it
ChoosePivot(cmp, s) ==
    LET q == Len(s) \div 4
        ab == Order2(cmp, s, 1 + q, 1 + q * 2, 0)
        bc == Order2(cmp, s, ab[2], 1 + q * 3, ab[3])
        ab2 == Order2(cmp, s, ab[1], bc[1], bc[3])
    IN  [pivot |-> ab2[2], increasing |-> ab2[3] = 0]

\* partialInsertionSort on a slice of fewer than 50 elements: it moves
\* nothing and reports whether the slice is sorted
PartialInsertionSort(cmp, s) ==
    \A i \in 2..Len(s) : ~SortLess(cmp, s[i], s[i - 1])

\* partition: for i <= j && less(i, a) { i++ }
RECURSIVE ScanUp(_, _, _, _)
ScanUp(cmp, s, i, j) ==
    IF i <= j /\ SortLess(cmp, s[i], s[1]) THEN ScanUp(cmp, s, i + 1, j) ELSE i

\* partition: for i <= j && !less(j, a) { j-- }
RECURSIVE ScanDown(_, _, _, _)
ScanDown(cmp, s, i, j) ==
    IF i <= j /\ ~SortLess(cmp, s[j], s[1]) THEN ScanDown(cmp, s, i, j - 1) ELSE j

\* partition, with the pivot at the first position: the loop that swaps
\* the pairs out of place, and the final swap of the pivot to its position
RECURSIVE PartitionLoop(_, _, _, _)
PartitionLoop(cmp, s, i, j) ==
    LET i2 == ScanUp(cmp, s, i, j)
        j2 == ScanDown(cmp, s, i2, j)
    IN  IF i2 > j2 THEN [data |-> Swap(s, j2, 1), mid |-> j2]
        ELSE PartitionLoop(cmp, Swap(s, i2, j2), i2 + 1, j2 - 1)

Partition(cmp, s, pivot) == PartitionLoop(cmp, Swap(s, 1, pivot), 2, Len(s))

\* pdqsort_func on a slice of maxInsertion + 1 elements: a sorted slice is
\* left as it is; any other is partitioned once, and the two sides, of at
\* most maxInsertion elements, go to the insertion sort
Pdqsort(cmp, s) ==
    LET p == ChoosePivot(cmp, s) IN
    IF p.increasing /\ PartialInsertionSort(cmp, s) THEN s
    ELSE LET part == Partition(cmp, s, p.pivot)
         IN  SortSliceFrom(cmp, <<>>, SubSeq(part.data, 1, part.mid - 1))
                 \o <<part.data[part.mid]>>
                 \o SortSliceFrom(cmp, <<>>, SubSeq(part.data, part.mid + 1, Len(s)))

\* sort.Slice, for slices of up to maxInsertion + 1 elements
SortSlice(cmp, s) ==
    IF Len(s) <= maxInsertion THEN SortSliceFrom(cmp, <<>>, s) ELSE Pdqsort(cmp, s)

\* the workloads the first loop keeps, in input order
RECURSIVE FilterAvailable(_)
FilterAvailable(ws) ==
    IF ws = <<>> THEN <<>>
    ELSE IF isUserAvailable(Head(ws).User)
         THEN <<Head(ws)>> \o FilterAvailable(Tail(ws))
         ELSE FilterAvailable(Tail(ws))

\* first workload of ws accepted by the assignee loop
RECURSIVE FirstAssignee(_, _)
FirstAssignee(mr, ws) ==
    IF ws = <<>> THEN Nil
    ELSE IF mr.Author = Nil \/ Head(ws).User.ID # mr.Author[1].ID
         THEN Ptr(Head(ws).User)
         ELSE FirstAssignee(mr, Tail(ws))

\* mutant: the reviewer loop without the comparison against the assignee
RECURSIVE FirstReviewerAnyone(_, _, _)
FirstReviewerAnyone(mr, assignee, ws) ==
    IF ws = <<>> THEN Nil
    ELSE IF mr.Author = Nil \/ Head(ws).User.ID # mr.Author[1].ID
         THEN Ptr(Head(ws).User)
         ELSE FirstReviewerAnyone(mr, assignee, Tail(ws))

\* first workload of ws accepted by the reviewer loop
RECURSIVE FirstReviewer(_, _, _)
FirstReviewer(mr, assignee, ws) ==
    IF ws = <<>> THEN Nil
    ELSE IF /\ (mr.Author = Nil \/ Head(ws).User.ID # mr.Author[1].ID)
            /\ (assignee = Nil \/ Head(ws).User.ID # assignee[1].ID)
         THEN Ptr(Head(ws).User)
         ELSE FirstReviewer(mr, assignee, Tail(ws))

ErrNone == "nil"
ErrNoTeamMembers == "no team members available"
ErrNoAvailable == "no available team members"

SuggestRanked(mr, availableWorkloads) ==
    LET byScore == SortSlice("score", availableWorkloads)
        suggestedAssignee == FirstAssignee(mr, byScore)
        byMRCount == SortSlice("mrcount", byScore)
        suggestedReviewer == FirstReviewer(mr, suggestedAssignee, byMRCount)
    IN  [assignee |-> suggestedAssignee, reviewer |-> suggestedReviewer,
         err |-> ErrNone]

\* mutant: the check of the filtered list is missing
SuggestWithoutAvailableCheck(mr, workloads) ==
    IF Len(workloads) = 0
    THEN [assignee |-> Nil, reviewer |-> Nil, err |-> ErrNoTeamMembers]
    ELSE SuggestRanked(mr, FilterAvailable(workloads))

SuggestAssigneeAndReviewer(mr, workloads) ==
    IF Len(workloads) = 0
    THEN [assignee |-> Nil, reviewer |-> Nil, err |-> ErrNoTeamMembers]
    ELSE LET availableWorkloads == FilterAvailable(workloads) IN
         IF Len(availableWorkloads) = 0
         THEN [assignee |-> Nil, reviewer |-> Nil, err |-> ErrNoAvailable]
         ELSE SuggestRanked(mr, availableWorkloads)

(***************************************************************************)
(* Specification of the suggester: the inputs are drawn in Init, Suggest   *)
(* applies the function.                                                   *)
(***************************************************************************)
\* The callers pass the result of AnalyzeWorkload: the workloads of the
\* configured team members whose lookup succeeded, in the configured order.
\* The team lists one handle twice and has a member who is out of office.
SuggestTeam == <<Alice, Bob, CarolOOO, Dan, Alice>>

SuggestCounts == (0..MaxMRCount) \X (0..MaxCommits)

\* the elements of a set of integers, in increasing order
RECURSIVE Ascending(_)
Ascending(S) ==
    IF S = {} THEN <<>>
    ELSE LET m == CHOOSE x \in S : \A y \in S : x <= y
         IN  <<m>> \o Ascending(S \ {m})

\* the workloads of the members at the positions S, with the counts f gives
SuggestWorkloadsOf(S, f) ==
    LET idx == Ascending(S)
    IN  [k \in 1..Len(idx) |-> UserWorkload(SuggestTeam[idx[k]], f[idx[k]][1], f[idx[k]][2])]

SuggestPositions ==
    {T \in SUBSET (1..Len(SuggestTeam)) : Cardinality(T) <= MaxWorkloads}

SeqsUpTo(S, n) == UNION {[1..k -> S] : k \in 0..n}

SuggestMRs ==
    {MergeRequest(1, 1, a, Nil, <<>>, FALSE) : a \in {Nil, Ptr(Bob)}}

SuggestInit ==
    /\ sg_pc = "call"
    /\ sg_mr \in SuggestMRs
    /\ \E S \in SuggestPositions : \E f \in [S -> SuggestCounts] :
            sg_workloads = SuggestWorkloadsOf(S, f)
    /\ sg_assignee = Nil
    /\ sg_reviewer = Nil
    /\ sg_err = ErrNone

Suggest ==
    /\ sg_pc = "call"
    /\ LET r == SuggestAssigneeAndReviewer(sg_mr, sg_workloads) IN
        /\ sg_assignee' = r.assignee
        /\ sg_reviewer' = r.reviewer
        /\ sg_err' = r.err
    /\ sg_pc' = "done"
    /\ UNCHANGED <<sg_mr, sg_workloads>>
    /\ UNCHANGED sgOthers

InitSuggest == SuggestInit /\ IdleBut("sg")
NextSuggest == Suggest
SpecSuggest == InitSuggest /\ [][NextSuggest]_vars

(***************************************************************************)
(* Properties of the suggester                                             *)
(***************************************************************************)
SgDone == sg_pc = "done"

SgIsAuthor(u) == sg_mr.Author # Nil /\ u.ID = sg_mr.Author[1].ID

\* indexes of the input workloads a suggestion may come from
SgEligible ==
    {i \in DOMAIN sg_workloads :
        isUserAvailable(sg_workloads[i].User) /\ ~SgIsAuthor(sg_workloads[i].User)}

\* indexes of the input workloads the reviewer may come from
SgReviewerEligible ==
    {i \in SgEligible :
        sg_assignee = Nil \/ sg_workloads[i].User.ID # sg_assignee[1].ID}

SgSomeAvailable == \E i \in DOMAIN sg_workloads : isUserAvailable(sg_workloads[i].User)

SgFromEligible(p) == p # Nil => \E i \in SgEligible : sg_workloads[i].User = p[1]

SgScoreOf(w) == calculateAssigneeScore(w.Commits, w.MRCount)

\* C1: every non-nil user SuggestAssigneeAndReviewer returns is the User of an
\* input workload that is available and is not the MR author, and a non-nil
\* assignee and a non-nil reviewer have different IDs.
C1_SuggestionsAreEligible ==
    SgDone =>
        /\ SgFromEligible(sg_assignee)
        /\ SgFromEligible(sg_reviewer)
        /\ (sg_assignee # Nil /\ sg_reviewer # Nil) => sg_assignee[1].ID # sg_reviewer[1].ID

C1_Witness ==
    /\ SgDone
    /\ sg_assignee # Nil /\ sg_reviewer # Nil
    /\ sg_mr.Author # Nil
    /\ \E i \in DOMAIN sg_workloads :
        /\ SgIsAuthor(sg_workloads[i].User)
        /\ \A j \in DOMAIN sg_workloads \ {i} :
            /\ ScoreGreater(SgScoreOf(sg_workloads[i]), SgScoreOf(sg_workloads[j]))
            /\ sg_workloads[i].MRCount < sg_workloads[j].MRCount

\* C2: with a nil error and at least one available member that is not the
\* author, the assignee is non-nil and no available non-author member has a
\* greater score Commits/(1+MRCount) than the assignee.
C2_AssigneeHasMaxScore ==
    (SgDone /\ sg_err = ErrNone /\ SgEligible # {}) =>
        /\ sg_assignee # Nil
        /\ \E i \in SgEligible :
            /\ sg_workloads[i].User = sg_assignee[1]
            /\ \A j \in SgEligible :
                ~ScoreGreater(SgScoreOf(sg_workloads[j]), SgScoreOf(sg_workloads[i]))

C2_Witness ==
    /\ SgDone /\ sg_err = ErrNone /\ sg_assignee # Nil
    /\ Cardinality(SgEligible) >= 2
    /\ \E i, j \in SgEligible :
        /\ i < j
        /\ sg_workloads[j].User = sg_assignee[1]
        /\ sg_workloads[i].User.ID # sg_assignee[1].ID
        /\ ScoreGreater(SgScoreOf(sg_workloads[j]), SgScoreOf(sg_workloads[i]))
        /\ \E k \in DOMAIN sg_workloads :
            /\ SgIsAuthor(sg_workloads[k].User)
            /\ ScoreGreater(SgScoreOf(sg_workloads[k]), SgScoreOf(sg_workloads[j]))

\* C3: once the policy checks have passed, the reviewer has minimal MRCount
\* among the available members that are neither the author nor the chosen
\* assignee; when there is no such member the reviewer is nil and the error is
\* nil all the same.
C3_ReviewerHasMinMRCount ==
    (SgDone /\ SgSomeAvailable) =>
        IF SgReviewerEligible = {}
        THEN sg_reviewer = Nil /\ sg_err = ErrNone
        ELSE /\ sg_reviewer # Nil
             /\ \E i \in SgReviewerEligible :
                /\ sg_workloads[i].User = sg_reviewer[1]
                /\ \A j \in SgReviewerEligible :
                    sg_workloads[i].MRCount <= sg_workloads[j].MRCount

C3_Witness ==
    /\ SgDone /\ sg_reviewer # Nil
    /\ \E i, j \in SgReviewerEligible :
        /\ i < j
        /\ sg_workloads[j].User = sg_reviewer[1]
        /\ sg_workloads[i].User.ID # sg_reviewer[1].ID
        /\ sg_workloads[j].MRCount < sg_workloads[i].MRCount

\* a second reachable case of C3: one eligible member only, so no reviewer
C3_WitnessNoReviewer ==
    /\ SgDone /\ sg_assignee # Nil /\ sg_reviewer = Nil /\ sg_err = ErrNone

\* C4: an empty workload list gives (nil, nil, error), a non-empty list without
\* an available member gives (nil, nil, another error), and every other input
\* gives a nil error.
C4_PolicyErrors ==
    SgDone =>
        /\ Len(sg_workloads) = 0 =>
            (sg_assignee = Nil /\ sg_reviewer = Nil /\ sg_err = ErrNoTeamMembers)
        /\ (Len(sg_workloads) > 0 /\ ~SgSomeAvailable) =>
            (sg_assignee = Nil /\ sg_reviewer = Nil /\ sg_err = ErrNoAvailable)
        /\ SgSomeAvailable => sg_err = ErrNone
        /\ ErrNoTeamMembers # ErrNoAvailable
        /\ ErrNoTeamMembers # ErrNone /\ ErrNoAvailable # ErrNone

C4_Witness ==
    /\ SgDone
    /\ Len(sg_workloads) > 0 /\ ~SgSomeAvailable
    /\ sg_err = ErrNoAvailable

C4_WitnessEmpty == SgDone /\ Len(sg_workloads) = 0 /\ sg_err = ErrNoTeamMembers

(***************************************************************************)
(* handleGitLabWebhook: one request, one step per call into the engine.    *)
(* wh_calls logs the calls in order with their outcome; wh_status is the   *)
(* HTTP status written (0: none).  A nil dereference makes net/http        *)
(* abort the request without a response (wh_pc = "panicked").              *)
(***************************************************************************)
StatusOK == 200
StatusBadRequest == 400
StatusMethodNotAllowed == 405
StatusInternalServerError == 500

WebhookPayload(method, decodes, kind, wip, assigneeID) ==
    [Method |-> method, Decodes |-> decodes, ObjectKind |-> kind,
     ProjectID |-> 1, IID |-> 1, WorkInProgress |-> wip, AssigneeID |-> assigneeID]

\* the payloads, with the state of the merge request, which the handler
\* decodes and does not read
WebhookPayloads ==
    {[State |-> st] @@ WebhookPayload(m, d, k, w, a) :
        m \in {"POST", "GET"}, d \in BOOLEAN, k \in {"merge_request", "push"},
        w \in BOOLEAN, a \in {0, 2}, st \in {"opened", "merged"}}

\* what the gateway may answer to GetMergeRequest
WebhookMRs ==
    {MergeRequest(1, 1, a, Nil, <<>>, FALSE) : a \in {Nil, Ptr(Alice)}}

WebhookWorkloadEntries ==
    {UserWorkload(u, m, 1) : u \in {Alice, Bob, Carol, BobBusy}, m \in 0..MaxMRCount}

\* what AnalyzeWorkload may return without error
WebhookWorkloads == SeqsUpTo(WebhookWorkloadEntries, MaxWebhookWorkloads)

Call(name, result) == [name |-> name, result |-> result]

WebhookRespond(status) ==
    /\ wh_status' = status
    /\ wh_pc' = "done"

WebhookInit ==
    /\ wh_pc = "start"
    /\ wh_payload \in WebhookPayloads
    /\ wh_mr = Nil
    /\ wh_workloads = <<>>
    /\ wh_assignee = Nil
    /\ wh_reviewer = Nil
    /\ wh_calls = <<>>
    /\ wh_status = 0

\* method check, body decoding, object kind and draft/assignee filters
WebhookReceive ==
    /\ wh_pc = "start"
    /\ IF wh_payload.Method # "POST" THEN WebhookRespond(StatusMethodNotAllowed)
       ELSE IF ~wh_payload.Decodes THEN WebhookRespond(StatusBadRequest)
       ELSE IF wh_payload.ObjectKind # "merge_request" THEN WebhookRespond(StatusOK)
       ELSE IF wh_payload.WorkInProgress \/ wh_payload.AssigneeID # 0
            THEN WebhookRespond(StatusOK)
       ELSE wh_pc' = "getMR" /\ wh_status' = wh_status
    /\ UNCHANGED <<wh_payload, wh_mr, wh_workloads, wh_assignee, wh_reviewer, wh_calls>>
    /\ UNCHANGED whOthers

WebhookGetMergeRequest ==
    /\ wh_pc = "getMR"
    /\ \/ /\ wh_calls' = Append(wh_calls, Call("GetMergeRequest", "err"))
          /\ WebhookRespond(StatusInternalServerError)
          /\ UNCHANGED wh_mr
       \/ /\ \E mr \in WebhookMRs : wh_mr' = Ptr(mr)
          /\ wh_calls' = Append(wh_calls, Call("GetMergeRequest", "ok"))
          /\ wh_pc' = "analyze"
          /\ UNCHANGED wh_status
    /\ UNCHANGED <<wh_payload, wh_workloads, wh_assignee, wh_reviewer>>
    /\ UNCHANGED whOthers

WebhookAnalyzeWorkload ==
    /\ wh_pc = "analyze"
    /\ \/ /\ wh_calls' = Append(wh_calls, Call("AnalyzeWorkload", "err"))
          /\ WebhookRespond(StatusInternalServerError)
          /\ UNCHANGED wh_workloads
       \/ /\ \E ws \in WebhookWorkloads : wh_workloads' = ws
          /\ wh_calls' = Append(wh_calls, Call("AnalyzeWorkload", "ok"))
          /\ wh_pc' = "suggest"
          /\ UNCHANGED wh_status
    /\ UNCHANGED <<wh_payload, wh_mr, wh_assignee, wh_reviewer>>
    /\ UNCHANGED whOthers

\* mutant: the error of the suggester is not checked
WebhookSuggestUnchecked ==
    /\ wh_pc = "suggest"
    /\ LET r == SuggestAssigneeAndReviewer(wh_mr[1], wh_workloads) IN
        /\ wh_assignee' = r.assignee
        /\ wh_reviewer' = r.reviewer
        /\ wh_calls' = Append(wh_calls,
                Call("SuggestAssigneeAndReviewer", IF r.err # ErrNone THEN "err" ELSE "ok"))
        /\ wh_pc' = "update" /\ UNCHANGED wh_status
    /\ UNCHANGED <<wh_payload, wh_mr, wh_workloads>>
    /\ UNCHANGED whOthers

WebhookSuggest ==
    /\ wh_pc = "suggest"
    /\ LET r == SuggestAssigneeAndReviewer(wh_mr[1], wh_workloads) IN
        /\ wh_assignee' = r.assignee
        /\ wh_reviewer' = r.reviewer
        /\ IF r.err # ErrNone
           THEN /\ wh_calls' = Append(wh_calls, Call("SuggestAssigneeAndReviewer", "err"))
                /\ WebhookRespond(StatusInternalServerError)
           ELSE /\ wh_calls' = Append(wh_calls, Call("SuggestAssigneeAndReviewer", "ok"))
                /\ wh_pc' = "update" /\ UNCHANGED wh_status
    /\ UNCHANGED <<wh_payload, wh_mr, wh_workloads>>
    /\ UNCHANGED whOthers

\* &assignee.ID and reviewer.ID are evaluated before the call is made
WebhookUpdateMergeRequest ==
    /\ wh_pc = "update"
    /\ IF wh_assignee = Nil \/ wh_reviewer = Nil
       THEN /\ wh_pc' = "panicked"
            /\ UNCHANGED <<wh_calls, wh_status>>
       ELSE \/ /\ wh_calls' = Append(wh_calls, Call("UpdateMergeRequest", "err"))
               /\ WebhookRespond(StatusInternalServerError)
            \/ /\ wh_calls' = Append(wh_calls, Call("UpdateMergeRequest", "ok"))
               /\ WebhookRespond(StatusOK)
    /\ UNCHANGED <<wh_payload, wh_mr, wh_workloads, wh_assignee, wh_reviewer>>
    /\ UNCHANGED whOthers

InitWebhook == WebhookInit /\ IdleBut("wh")
NextWebhook ==
    \/ WebhookReceive
    \/ WebhookGetMergeRequest
    \/ WebhookAnalyzeWorkload
    \/ WebhookSuggest
    \/ WebhookUpdateMergeRequest
SpecWebhook == InitWebhook /\ [][NextWebhook]_vars

WhEngineCalls == {"GetMergeRequest", "AnalyzeWorkload", "SuggestAssigneeAndReviewer"}

WhUpdates == {i \in DOMAIN wh_calls : wh_calls[i].name = "UpdateMergeRequest"}

WhSomeEngineError ==
    \E i \in DOMAIN wh_calls : wh_calls[i].name \in WhEngineCalls /\ wh_calls[i].result = "err"

\* C5: an error of GetMergeRequest, AnalyzeWorkload or SuggestAssigneeAndReviewer
\* (policy errors included) is answered with 500 and is never followed by a call
\* of UpdateMergeRequest; UpdateMergeRequest is called at most once, and only as
\* the fourth call after those three have succeeded in that order.
C5_UpdateOnlyAfterSuccess ==
    /\ WhSomeEngineError =>
        (wh_pc = "done" /\ wh_status = StatusInternalServerError /\ WhUpdates = {})
    /\ Cardinality(WhUpdates) <= 1
    /\ \A i \in WhUpdates :
        /\ i = 4
        /\ wh_calls[1] = Call("GetMergeRequest", "ok")
        /\ wh_calls[2] = Call("AnalyzeWorkload", "ok")
        /\ wh_calls[3] = Call("SuggestAssigneeAndReviewer", "ok")

\* a policy error of the suggester blocked the update
C5_Witness ==
    /\ wh_pc = "done"
    /\ Len(wh_calls) = 3
    /\ wh_calls[3] = Call("SuggestAssigneeAndReviewer", "err")
    /\ Len(wh_workloads) > 0
    /\ wh_status = StatusInternalServerError

\* the update was made after three successful calls
C5_WitnessUpdated ==
    /\ wh_pc = "done" /\ WhUpdates = {4} /\ wh_status = StatusOK

(***************************************************************************)
(* fetchMRApprovals: the caller spawns one errgroup task per merge request *)
(* and waits; a task fetches, then locks mu, writes approvalsMap[mr.IID]   *)
(* and unlocks.  fa_task[i] is the position of task i, fa_gerr the index   *)
(* of the task whose error the group keeps (0: none), fa_ctx whether the   *)
(* context derived by errgroup.WithContext is cancelled.                   *)
(***************************************************************************)
\* the gateway's GetMergeRequestApprovals, by project ID and IID
GatewayApprovals(projectID, iid) ==
    IF projectID = 1 /\ iid = 1 THEN <<Bob>>
    ELSE IF projectID = 1 /\ iid = 2 THEN <<>>
    ELSE IF projectID = 2 /\ iid = 1 THEN <<Carol>>
    ELSE IF projectID = 2 /\ iid = 3 THEN <<Alice>>
    ELSE <<Bob, Carol>>

FetchMRPool ==
    {MergeRequest(1, 1, Ptr(Alice), Ptr(Bob), <<>>, FALSE),
     MergeRequest(2, 1, Ptr(Alice), Ptr(Bob), <<>>, FALSE),
     MergeRequest(1, 2, Ptr(Alice), Ptr(Bob), <<>>, FALSE)}

\* m with key k set to v, as Go's m[k] = v
MapPut(m, k, v) == [x \in DOMAIN m \cup {k} |-> IF x = k THEN v ELSE m[x]]

EmptyMap == <<>>

FetchInit ==
    /\ fa_pc = "spawn"
    /\ fa_mrs \in SeqsUpTo(FetchMRPool, MaxBatch)
    /\ fa_fail \in SUBSET (1..MaxBatch)
    /\ fa_fail \subseteq DOMAIN fa_mrs
    /\ fa_next = 1
    /\ fa_task = [i \in DOMAIN fa_mrs |-> "new"]
    /\ fa_got = [i \in DOMAIN fa_mrs |-> <<>>]
    /\ fa_failed = {}
    /\ fa_ctx = FALSE
    /\ fa_gerr = 0
    /\ fa_mu = 0
    /\ fa_map = EmptyMap
    /\ fa_ret = Nil

\* g.Go: the loop starts the next task, or ends
FetchGo ==
    /\ fa_pc = "spawn"
    /\ IF fa_next <= Len(fa_mrs)
       THEN /\ fa_task' = [fa_task EXCEPT ![fa_next] = "spawned"]
            /\ fa_next' = fa_next + 1
            /\ UNCHANGED fa_pc
       ELSE /\ fa_pc' = "wait"
            /\ UNCHANGED <<fa_task, fa_next>>
    /\ UNCHANGED <<fa_mrs, fa_fail, fa_got, fa_failed, fa_ctx, fa_gerr, fa_mu, fa_map, fa_ret>>
    /\ UNCHANGED faOthers

\* the task's GetMergeRequestApprovals succeeds
FetchTaskGot(i) ==
    /\ fa_task[i] = "spawned"
    /\ i \notin fa_fail
    /\ fa_got' = [fa_got EXCEPT ![i] = GatewayApprovals(fa_mrs[i].ProjectID, fa_mrs[i].IID)]
    /\ fa_task' = [fa_task EXCEPT ![i] = "lock"]
    /\ UNCHANGED <<fa_pc, fa_mrs, fa_fail, fa_next, fa_failed, fa_ctx, fa_gerr, fa_mu, fa_map, fa_ret>>
    /\ UNCHANGED faOthers

\* mutant: the task swallows the error and returns nil
FetchTaskFailedSwallowed(i) ==
    /\ fa_task[i] = "spawned"
    /\ i \in fa_fail \/ fa_ctx
    /\ fa_failed' = fa_failed \cup {i}
    /\ fa_task' = [fa_task EXCEPT ![i] = "done"]
    /\ UNCHANGED <<fa_pc, fa_mrs, fa_fail, fa_next, fa_got, fa_mu, fa_map, fa_ret,
                   fa_gerr, fa_ctx>>
    /\ UNCHANGED faOthers

\* the task's GetMergeRequestApprovals fails (by itself, or because a gateway
\* that honours the context finds it cancelled); the task returns the error,
\* the group keeps the first one and cancels the context
FetchTaskFailed(i) ==
    /\ fa_task[i] = "spawned"
    /\ i \in fa_fail \/ fa_ctx
    /\ fa_failed' = fa_failed \cup {i}
    /\ IF fa_gerr = 0
       THEN fa_gerr' = i /\ fa_ctx' = TRUE
       ELSE UNCHANGED <<fa_gerr, fa_ctx>>
    /\ fa_task' = [fa_task EXCEPT ![i] = "done"]
    /\ UNCHANGED <<fa_pc, fa_mrs, fa_fail, fa_next, fa_got, fa_mu, fa_map, fa_ret>>
    /\ UNCHANGED faOthers

\* mu.Lock()
FetchTaskLock(i) ==
    /\ fa_task[i] = "lock"
    /\ fa_mu = 0
    /\ fa_mu' = i
    /\ fa_task' = [fa_task EXCEPT ![i] = "write"]
    /\ UNCHANGED <<fa_pc, fa_mrs, fa_fail, fa_next, fa_got, fa_failed, fa_ctx, fa_gerr, fa_map, fa_ret>>
    /\ UNCHANGED faOthers

\* approvalsMap[mr.IID] = approvals
FetchTaskWrite(i) ==
    /\ fa_task[i] = "write"
    /\ fa_map' = MapPut(fa_map, fa_mrs[i].IID, fa_got[i])
    /\ fa_task' = [fa_task EXCEPT ![i] = "unlock"]
    /\ UNCHANGED <<fa_pc, fa_mrs, fa_fail, fa_next, fa_got, fa_failed, fa_ctx, fa_gerr, fa_mu, fa_ret>>
    /\ UNCHANGED faOthers

\* mu.Unlock(); return nil
FetchTaskUnlock(i) ==
    /\ fa_task[i] = "unlock"
    /\ fa_mu' = 0
    /\ fa_task' = [fa_task EXCEPT ![i] = "done"]
    /\ UNCHANGED <<fa_pc, fa_mrs, fa_fail, fa_next, fa_got, fa_failed, fa_ctx, fa_gerr, fa_map, fa_ret>>
    /\ UNCHANGED faOthers

FetchAllDone == \A i \in DOMAIN fa_task : fa_task[i] = "done"

\* the value fetchMRApprovals returns once g.Wait() has returned
FetchResult ==
    IF fa_gerr # 0
    THEN [map |-> Nil, err |-> fa_gerr]
    ELSE [map |-> Ptr(fa_map), err |-> 0]

\* mutant: Wait returns as soon as the group holds an error
FetchWaitEarly ==
    /\ fa_pc = "wait"
    /\ FetchAllDone \/ fa_gerr # 0
    /\ fa_ctx' = TRUE
    /\ fa_ret' = Ptr(FetchResult)
    /\ fa_pc' = "returned"
    /\ UNCHANGED <<fa_mrs, fa_fail, fa_next, fa_task, fa_got, fa_failed, fa_gerr, fa_mu, fa_map>>
    /\ UNCHANGED faOthers

\* g.Wait() returns when every task has finished, and cancels the context
FetchWait ==
    /\ fa_pc = "wait"
    /\ FetchAllDone
    /\ fa_ctx' = TRUE
    /\ fa_ret' = Ptr(FetchResult)
    /\ fa_pc' = "returned"
    /\ UNCHANGED <<fa_mrs, fa_fail, fa_next, fa_task, fa_got, fa_failed, fa_gerr, fa_mu, fa_map>>
    /\ UNCHANGED faOthers

InitFetch == FetchInit /\ IdleBut("fa")
NextFetch ==
    \/ FetchGo
    \/ \E i \in DOMAIN fa_task : FetchTaskGot(i)
    \/ \E i \in DOMAIN fa_task : FetchTaskFailed(i)
    \/ \E i \in DOMAIN fa_task : FetchTaskLock(i)
    \/ \E i \in DOMAIN fa_task : FetchTaskWrite(i)
    \/ \E i \in DOMAIN fa_task : FetchTaskUnlock(i)
    \/ FetchWait
SpecFetch == InitFetch /\ [][NextFetch]_vars

FetchInputIIDs == {fa_mrs[i].IID : i \in DOMAIN fa_mrs}

\* C6: when no fetch of the batch failed, fetchMRApprovals returns a nil error
\* and a non-nil map whose keys are exactly the IIDs of the input (an empty
\* non-nil map for an empty input), each key holding the approvals fetched for
\* an input merge request with that IID; when some fetch failed it returns a
\* nil map and the error of one of the failed tasks.
C6_StrictResult ==
    fa_pc = "returned" =>
        LET r == fa_ret[1] IN
        IF fa_failed = {}
        THEN /\ r.err = 0
             /\ r.map # Nil
             /\ DOMAIN r.map[1] = FetchInputIIDs
             /\ \A k \in DOMAIN r.map[1] :
                    \E i \in DOMAIN fa_mrs :
                        /\ fa_mrs[i].IID = k
                        /\ r.map[1][k] = GatewayApprovals(fa_mrs[i].ProjectID, k)
        ELSE /\ r.map = Nil
             /\ r.err \in fa_failed

\* a batch in which one fetch failed and another had already been stored
C6_Witness ==
    /\ fa_pc = "returned"
    /\ fa_failed # {}
    /\ fa_ret[1].map = Nil
    /\ DOMAIN fa_map # {}
    /\ Cardinality(fa_failed) >= 2

\* a batch without failure, with two merge requests of different IID
C6_WitnessAllOk ==
    /\ fa_pc = "returned"
    /\ fa_failed = {}
    /\ Cardinality(FetchInputIIDs) = 2

\* C7: as soon as a task of the batch has failed the context shared by the
\* tasks is cancelled, and fetchMRApprovals has returned only if every task of
\* the batch has finished.
C7_CancelAndJoin ==
    /\ fa_failed # {} => fa_ctx
    /\ fa_pc = "returned" => FetchAllDone

\* a task has failed while a sibling is still running and the caller waits
C7_Witness ==
    /\ fa_pc = "wait"
    /\ fa_gerr # 0 /\ fa_ctx
    /\ \E j \in DOMAIN fa_task : fa_task[j] \in {"spawned", "lock", "write", "unlock"}

\* the caller has received the error of a batch whose sibling finished after it
C7_WitnessReturned ==
    /\ fa_pc = "returned"
    /\ fa_ret[1].err # 0
    /\ \E j \in DOMAIN fa_task : j \in fa_failed /\ j \notin fa_fail

(***************************************************************************)
(* batchGetProjects: as fetchMRApprovals, but a task whose GetProject      *)
(* fails returns nil.  The only caller (convertToDomainEvents) passes the  *)
(* keys of a map, so the IDs are distinct.  bp_fail holds the IDs whose    *)
(* GetProject fails.                                                       *)
(***************************************************************************)
Digits == <<"0", "1", "2", "3", "4", "5", "6", "7", "8", "9">>

\* strconv.Itoa for 0 <= n
RECURSIVE Itoa(_)
Itoa(n) == IF n < 10 THEN <<Digits[n + 1]>> ELSE Itoa(n \div 10) \o <<Digits[(n % 10) + 1]>>

\* the project GitLab returns for the path (here a decimal ID) it is asked for
GatewayProject(path) ==
    [ID |-> CHOOSE n \in 0..99 : Itoa(n) = path, Path |-> <<"g", "/", "p">> \o path]

DistinctSeqsUpTo(S, n) ==
    {q \in SeqsUpTo(S, n) : \A i, j \in DOMAIN q : i # j => q[i] # q[j]}

ProjectsInit ==
    /\ bp_pc = "spawn"
    /\ bp_ids \in DistinctSeqsUpTo(1..MaxProjectID, MaxBatch)
    /\ bp_fail \in SUBSET (1..MaxProjectID)
    /\ bp_fail \subseteq {bp_ids[i] : i \in DOMAIN bp_ids}
    /\ bp_next = 1
    /\ bp_task = [i \in DOMAIN bp_ids |-> "new"]
    /\ bp_got = [i \in DOMAIN bp_ids |-> <<>>]
    /\ bp_ctx = FALSE
    /\ bp_gerr = 0
    /\ bp_mu = 0
    /\ bp_map = EmptyMap
    /\ bp_ret = Nil

\* g.Go: the loop starts the next task, or ends
ProjectsGo ==
    /\ bp_pc = "spawn"
    /\ IF bp_next <= Len(bp_ids)
       THEN /\ bp_task' = [bp_task EXCEPT ![bp_next] = "spawned"]
            /\ bp_next' = bp_next + 1
            /\ UNCHANGED bp_pc
       ELSE /\ bp_pc' = "wait"
            /\ UNCHANGED <<bp_task, bp_next>>
    /\ UNCHANGED <<bp_ids, bp_fail, bp_got, bp_ctx, bp_gerr, bp_mu, bp_map, bp_ret>>
    /\ UNCHANGED bpOthers

\* r.GetProject(ctx, strconv.Itoa(projectID)) succeeds
ProjectsTaskGot(i) ==
    /\ bp_task[i] = "spawned"
    /\ bp_ids[i] \notin bp_fail
    /\ bp_got' = [bp_got EXCEPT ![i] = GatewayProject(Itoa(bp_ids[i])).Path]
    /\ bp_task' = [bp_task EXCEPT ![i] = "lock"]
    /\ UNCHANGED <<bp_pc, bp_ids, bp_fail, bp_next, bp_ctx, bp_gerr, bp_mu, bp_map, bp_ret>>
    /\ UNCHANGED bpOthers

\* mutant: the task returns the error, the group keeps it and cancels
ProjectsTaskFailedStrict(i) ==
    /\ bp_task[i] = "spawned"
    /\ bp_ids[i] \in bp_fail
    /\ IF bp_gerr = 0
       THEN bp_gerr' = i /\ bp_ctx' = TRUE
       ELSE UNCHANGED <<bp_gerr, bp_ctx>>
    /\ bp_task' = [bp_task EXCEPT ![i] = "done"]
    /\ UNCHANGED <<bp_pc, bp_ids, bp_fail, bp_next, bp_got, bp_mu, bp_map, bp_ret>>
    /\ UNCHANGED bpOthers

\* r.GetProject fails: the task returns nil, nothing is stored
ProjectsTaskFailed(i) ==
    /\ bp_task[i] = "spawned"
    /\ bp_ids[i] \in bp_fail
    /\ bp_task' = [bp_task EXCEPT ![i] = "done"]
    /\ UNCHANGED <<bp_pc, bp_ids, bp_fail, bp_next, bp_got, bp_ctx, bp_gerr, bp_mu,
                   bp_map, bp_ret>>
    /\ UNCHANGED bpOthers

\* mu.Lock()
ProjectsTaskLock(i) ==
    /\ bp_task[i] = "lock"
    /\ bp_mu = 0
    /\ bp_mu' = i
    /\ bp_task' = [bp_task EXCEPT ![i] = "write"]
    /\ UNCHANGED <<bp_pc, bp_ids, bp_fail, bp_next, bp_got, bp_ctx, bp_gerr, bp_map, bp_ret>>
    /\ UNCHANGED bpOthers

\* projects[projectID] = project.Path
ProjectsTaskWrite(i) ==
    /\ bp_task[i] = "write"
    /\ bp_map' = MapPut(bp_map, bp_ids[i], bp_got[i])
    /\ bp_task' = [bp_task EXCEPT ![i] = "unlock"]
    /\ UNCHANGED <<bp_pc, bp_ids, bp_fail, bp_next, bp_got, bp_ctx, bp_gerr, bp_mu, bp_ret>>
    /\ UNCHANGED bpOthers

\* mu.Unlock(); return nil
ProjectsTaskUnlock(i) ==
    /\ bp_task[i] = "unlock"
    /\ bp_mu' = 0
    /\ bp_task' = [bp_task EXCEPT ![i] = "done"]
    /\ UNCHANGED <<bp_pc, bp_ids, bp_fail, bp_next, bp_got, bp_ctx, bp_gerr, bp_map, bp_ret>>
    /\ UNCHANGED bpOthers

ProjectsAllDone == \A i \in DOMAIN bp_task : bp_task[i] = "done"

\* g.Wait() returns when every task has finished, and cancels the context
ProjectsWait ==
    /\ bp_pc = "wait"
    /\ ProjectsAllDone
    /\ bp_ctx' = TRUE
    /\ bp_ret' = Ptr(IF bp_gerr # 0
                     THEN [map |-> Nil, err |-> bp_gerr]
                     ELSE [map |-> Ptr(bp_map), err |-> 0])
    /\ bp_pc' = "returned"
    /\ UNCHANGED <<bp_ids, bp_fail, bp_next, bp_task, bp_got, bp_gerr, bp_mu, bp_map>>
    /\ UNCHANGED bpOthers

InitProjects == ProjectsInit /\ IdleBut("bp")
NextProjects ==
    \/ ProjectsGo
    \/ \E i \in DOMAIN bp_task : ProjectsTaskGot(i)
    \/ \E i \in DOMAIN bp_task : ProjectsTaskFailed(i)
    \/ \E i \in DOMAIN bp_task : ProjectsTaskLock(i)
    \/ \E i \in DOMAIN bp_task : ProjectsTaskWrite(i)
    \/ \E i \in DOMAIN bp_task : ProjectsTaskUnlock(i)
    \/ ProjectsWait
SpecProjects == InitProjects /\ [][NextProjects]_vars

ProjectsInputIDs == {bp_ids[i] : i \in DOMAIN bp_ids}

\* C8: batchGetProjects returns a nil error and a map that holds exactly the
\* projects whose fetch succeeded, each with its path, so that a failed project
\* is absent and the keys are a subset of the input IDs; and while a task of
\* the batch is unfinished the context of the batch is not cancelled, whatever
\* has failed.
C8_LenientResult ==
    /\ bp_pc = "returned" =>
        LET r == bp_ret[1] IN
        /\ r.err = 0
        /\ r.map # Nil
        /\ DOMAIN r.map[1] = ProjectsInputIDs \ bp_fail
        /\ DOMAIN r.map[1] \subseteq ProjectsInputIDs
        /\ \A id \in DOMAIN r.map[1] : r.map[1][id] = GatewayProject(Itoa(id)).Path
    /\ bp_pc # "returned" => ~bp_ctx

\* one project failed and was dropped, another one is in the result
C8_Witness ==
    /\ bp_pc = "returned"
    /\ bp_fail # {}
    /\ DOMAIN bp_ret[1].map[1] # {}
    /\ DOMAIN bp_ret[1].map[1] # ProjectsInputIDs

\* a task has failed while a sibling has not fetched yet
C8_WitnessSibling ==
    /\ \E i, j \in DOMAIN bp_task :
        /\ bp_task[i] = "done" /\ bp_ids[i] \in bp_fail
        /\ bp_task[j] = "spawned" /\ bp_ids[j] \notin bp_fail

(***************************************************************************)
(* InMemoryCache: byID and byUsername are sync.Maps, so one Store or Load  *)
(* is atomic, and StoreUser is two Stores in a row.  NumCacheCallers       *)
(* goroutines call StoreUser; c_log lists the users passed to StoreUser in *)
(* the order of the calls and c_overlap tells whether a call ever began    *)
(* while another one was in progress.  c_out is what the last lookup       *)
(* returned: the users (none for a nil user) and the found flag.           *)
(* One more goroutine makes the lookups, one call after the other; c_out   *)
(* is empty while its GetAllUsers is under way.  GetAllUsers is a Range    *)
(* over byID, which is no snapshot: it visits one key at a time while the  *)
(* callers store.  c_range is the Range under way: the keys it has         *)
(* visited, the users it has appended, and the length of c_log when it     *)
(* began.                                                                  *)
(***************************************************************************)
CacheCallers == 1..NumCacheCallers

CacheUsers ==
    {User(1, <<"a">>, StatusAvailable), User(1, <<"a">>, StatusBusy),
     User(1, <<"b">>, StatusAvailable), User(2, <<"a">>, StatusAvailable),
     User(2, <<"b">>, StatusAvailable)}

CacheIDs == {u.ID : u \in CacheUsers} \cup {3}
CacheUsernames == {u.Username : u \in CacheUsers} \cup {<<"c">>}

\* sync.Map.Load followed by the type assertion
CacheLoad(m, k) ==
    IF k \in DOMAIN m THEN [user |-> Ptr(m[k]), ok |-> TRUE]
    ELSE [user |-> Nil, ok |-> FALSE]

\* what InMemoryCache.GetUserByID returns in the current state
GetUserByID(id) == CacheLoad(c_byID, id)

\* what InMemoryCache.GetUserByUsername returns in the current state
GetUserByUsername(username) == CacheLoad(c_byUsername, username)

CacheInit ==
    /\ c_byID = EmptyMap
    /\ c_byUsername = EmptyMap
    /\ c_pc = [p \in CacheCallers |-> "idle"]
    /\ c_arg = [p \in CacheCallers |-> Nil]
    /\ c_log = <<>>
    /\ c_overlap = FALSE
    /\ c_out = Nil
    /\ c_range = Nil

\* mutant: LoadOrStore instead of Store, the first record of an ID is kept
StoreUserByIDIfAbsent(p, user) ==
    /\ c_pc[p] = "idle"
    /\ Len(c_log) < MaxStores
    /\ c_byID' = IF user.ID \in DOMAIN c_byID THEN c_byID ELSE MapPut(c_byID, user.ID, user)
    /\ c_arg' = [c_arg EXCEPT ![p] = Ptr(user)]
    /\ c_pc' = [c_pc EXCEPT ![p] = "byUsername"]
    /\ c_log' = Append(c_log, user)
    /\ c_overlap' = (c_overlap \/ \E q \in CacheCallers : c_pc[q] # "idle")
    /\ UNCHANGED <<c_byUsername, c_out, c_range>>
    /\ UNCHANGED cOthers

\* StoreUser, first statement: c.byID.Store(user.ID, user)
StoreUserByID(p, user) ==
    /\ c_pc[p] = "idle"
    /\ Len(c_log) < MaxStores
    /\ c_byID' = MapPut(c_byID, user.ID, user)
    /\ c_arg' = [c_arg EXCEPT ![p] = Ptr(user)]
    /\ c_pc' = [c_pc EXCEPT ![p] = "byUsername"]
    /\ c_log' = Append(c_log, user)
    /\ c_overlap' = (c_overlap \/ \E q \in CacheCallers : c_pc[q] # "idle")
    /\ UNCHANGED <<c_byUsername, c_out, c_range>>
    /\ UNCHANGED cOthers

\* StoreUser, second statement: c.byUsername.Store(user.Username, user)
StoreUserByUsername(p) ==
    /\ c_pc[p] = "byUsername"
    /\ c_byUsername' = MapPut(c_byUsername, c_arg[p][1].Username, c_arg[p][1])
    /\ c_arg' = [c_arg EXCEPT ![p] = Nil]
    /\ c_pc' = [c_pc EXCEPT ![p] = "idle"]
    /\ UNCHANGED <<c_byID, c_log, c_overlap, c_out, c_range>>
    /\ UNCHANGED cOthers

CacheGetUserByID(id) ==
    /\ c_range = Nil
    /\ c_out' = Ptr([op |-> "GetUserByID", users |-> GetUserByID(id).user,
                      ok |-> GetUserByID(id).ok])
    /\ UNCHANGED <<c_byID, c_byUsername, c_pc, c_arg, c_log, c_overlap, c_range>>
    /\ UNCHANGED cOthers

CacheGetUserByUsername(username) ==
    /\ c_range = Nil
    /\ c_out' = Ptr([op |-> "GetUserByUsername", users |-> GetUserByUsername(username).user,
                      ok |-> GetUserByUsername(username).ok])
    /\ UNCHANGED <<c_byID, c_byUsername, c_pc, c_arg, c_log, c_overlap, c_range>>
    /\ UNCHANGED cOthers

\* GetAllUsers: var users []*domain.User; c.byID.Range begins
CacheRangeBegin ==
    /\ c_range = Nil
    /\ c_range' = Ptr([from |-> Len(c_log), seen |-> {}, users |-> <<>>])
    /\ c_out' = Nil
    /\ UNCHANGED <<c_byID, c_byUsername, c_pc, c_arg, c_log, c_overlap>>
    /\ UNCHANGED cOthers

\* Range calls the function on a key it has not visited, with the value the
\* key has now: users = append(users, user)
CacheRangeVisit(id) ==
    /\ c_range # Nil
    /\ id \in DOMAIN c_byID \ c_range[1].seen
    /\ c_range' = Ptr([c_range[1] EXCEPT !.seen = @ \cup {id},
                                         !.users = Append(@, c_byID[id])])
    /\ UNCHANGED <<c_byID, c_byUsername, c_pc, c_arg, c_log, c_overlap, c_out>>
    /\ UNCHANGED cOthers

\* Range ends, at the latest when every key has been visited and not before
\* the keys it found at its beginning have been; return users
CacheRangeEnd ==
    /\ c_range # Nil
    /\ {c_log[i].ID : i \in 1..c_range[1].from} \subseteq c_range[1].seen
    /\ c_out' = Ptr([op |-> "GetAllUsers", users |-> c_range[1].users, ok |-> TRUE,
                      from |-> c_range[1].from, to |-> Len(c_log)])
    /\ c_range' = Nil
    /\ UNCHANGED <<c_byID, c_byUsername, c_pc, c_arg, c_log, c_overlap>>
    /\ UNCHANGED cOthers

CacheGetAllUsers ==
    \/ CacheRangeBegin
    \/ \E id \in CacheIDs : CacheRangeVisit(id)
    \/ CacheRangeEnd

CacheLookup ==
    \/ \E id \in CacheIDs : CacheGetUserByID(id)
    \/ \E username \in CacheUsernames : CacheGetUserByUsername(username)
    \/ CacheGetAllUsers

InitCache == CacheInit /\ IdleBut("c")
NextCache ==
    \/ \E p \in CacheCallers, user \in CacheUsers : StoreUserByID(p, user)
    \/ \E p \in CacheCallers : StoreUserByUsername(p)
    \/ \E id \in CacheIDs : CacheGetUserByID(id)
    \/ \E username \in CacheUsernames : CacheGetUserByUsername(username)
    \/ CacheRangeBegin
    \/ \E id \in CacheIDs : CacheRangeVisit(id)
    \/ CacheRangeEnd
SpecCache == InitCache /\ [][NextCache]_vars

CacheQuiescent == \A p \in CacheCallers : c_pc[p] = "idle"

\* C9: whenever no StoreUser is in progress, a user u found by handle is the
\* record GetUserByID(u.ID) returns.
C9_HandleResolvesToIDRecord ==
    CacheQuiescent =>
        \A h \in CacheUsernames :
            GetUserByUsername(h).ok =>
                GetUserByID(GetUserByUsername(h).user[1].ID) = GetUserByUsername(h)

\* a StoreUser({ID: 1, Username: "a"}) and a StoreUser({ID: 1, Username: "b"})
\* have both completed, one after the other
C9_RenamedUserState ==
    /\ CacheQuiescent /\ ~c_overlap
    /\ Len(c_log) = 2
    /\ c_log[1] = User(1, <<"a">>, StatusAvailable)
    /\ c_log[2] = User(1, <<"b">>, StatusAvailable)

LogIDs == {c_log[i].ID : i \in DOMAIN c_log}
LogUsernames == {c_log[i].Username : i \in DOMAIN c_log}

\* the user most recently passed to StoreUser with this ID / this username
LastStoredWithID(id) ==
    c_log[CHOOSE i \in DOMAIN c_log :
            c_log[i].ID = id /\ \A j \in DOMAIN c_log : c_log[j].ID = id => j <= i]

LastStoredWithUsername(h) ==
    c_log[CHOOSE i \in DOMAIN c_log :
            c_log[i].Username = h /\ \A j \in DOMAIN c_log : c_log[j].Username = h => j <= i]

C10_LastWriteWins ==
    (CacheQuiescent /\ ~c_overlap) =>
        /\ \A id \in CacheIDs :
            GetUserByID(id) =
                IF id \in LogIDs THEN [user |-> Ptr(LastStoredWithID(id)), ok |-> TRUE]
                ELSE [user |-> Nil, ok |-> FALSE]
        /\ \A h \in CacheUsernames :
            GetUserByUsername(h) =
                IF h \in LogUsernames THEN [user |-> Ptr(LastStoredWithUsername(h)), ok |-> TRUE]
                ELSE [user |-> Nil, ok |-> FALSE]

\* a GetAllUsers during which no StoreUser wrote byID returned one user for
\* every ID stored, the last one stored; any GetAllUsers returned at most one
\* user per ID and a user for every ID stored before it began
C10_AllUsersOnePerID ==
    (c_out # Nil /\ c_out[1].op = "GetAllUsers") =>
        LET users == c_out[1].users
            before == {c_log[i].ID : i \in 1..c_out[1].from}
            during == {c_log[i].ID : i \in 1..c_out[1].to}
            count(id) == Cardinality({i \in DOMAIN users : users[i].ID = id})
        IN  /\ \A id \in before : count(id) = 1
            /\ \A id \in CacheIDs \ during : count(id) = 0
            /\ \A id \in during : count(id) <= 1
            /\ c_out[1].from = c_out[1].to =>
                  /\ Len(users) = Cardinality(before)
                  /\ \A i \in DOMAIN users :
                        \E j \in 1..c_out[1].to :
                            /\ c_log[j] = users[i]
                            /\ \A k \in (j + 1)..c_out[1].to : c_log[k].ID # users[i].ID

C10_GrowOnlyStep ==
    /\ DOMAIN c_byID \subseteq DOMAIN c_byID'
    /\ DOMAIN c_byUsername \subseteq DOMAIN c_byUsername'
    /\ c_out' # c_out => UNCHANGED <<c_byID, c_byUsername>>

\* C10: after StoreUser calls made one after the other, GetUserByID and
\* GetUserByUsername return the user most recently stored under the key, or
\* (nil, false) for a key never stored; GetAllUsers returns one user for every
\* ID ever stored; no step removes a key and a lookup changes neither map.
C10_TwoGrowingMaps ==
    /\ [](C10_LastWriteWins /\ C10_AllUsersOnePerID)
    /\ [][C10_GrowOnlyStep]_vars

\* StoreUser calls in a row, the last of which has overwritten a username with
\* a user of another ID, and a GetAllUsers after them
C10_Witness ==
    /\ CacheQuiescent /\ ~c_overlap
    /\ Len(c_log) = MaxStores
    /\ \E i \in 1..(Len(c_log) - 1) :
          c_log[i].Username = c_log[Len(c_log)].Username /\ c_log[i].ID # c_log[Len(c_log)].ID
    /\ c_out # Nil /\ c_out[1].op = "GetAllUsers" /\ Len(c_out[1].users) = 2
    /\ c_out[1].from = Len(c_log)

\* the last StoreUser has overwritten the record of an ID, and GetUserByID ran
C10_WitnessOverwrittenID ==
    /\ CacheQuiescent /\ ~c_overlap
    /\ Len(c_log) = MaxStores
    /\ \E i \in 1..(Len(c_log) - 1) :
          c_log[i].ID = c_log[Len(c_log)].ID /\ c_log[i] # c_log[Len(c_log)]
    /\ c_out # Nil /\ c_out[1].op = "GetUserByID" /\ c_out[1].users = Ptr(c_log[Len(c_log)])

\* the content of byID after the first n StoreUser calls
ByIDAfter(n) ==
    {c_log[j] : j \in {i \in 1..n : \A k \in (i + 1)..n : c_log[k].ID # c_log[i].ID}}

\* a GetAllUsers with StoreUser calls during it has returned a content byID
\* never had
C10_WitnessRangeNoSnapshot ==
    /\ c_out # Nil /\ c_out[1].op = "GetAllUsers"
    /\ \A n \in 0..Len(c_log) :
          {c_out[1].users[i] : i \in DOMAIN c_out[1].users} # ByIDAfter(n)


(***************************************************************************)
(* CachedRepository (cached_repository.go).  One caller makes up to        *)
(* MaxLookups calls of GetUserByUsername, one after the other.  A call     *)
(* looks the handle up in the cache; on a miss it calls the underlying     *)
(* repository and, when that returns a user, stores it with StoreUser,     *)
(* which is two Stores.  A second caller makes up to MaxOtherCalls calls   *)
(* of the methods that store the users of their result                     *)
(* (ListMergeRequests, GetMergeRequestApprovals, GetMergeRequest,          *)
(* PreloadUsersByUsernames, GetCurrentUser), and its Stores interleave     *)
(* with the first caller's steps.  cr_pre is the cache at the lookup of    *)
(* the current call and cr_mark the number of Stores the second caller had *)
(* made by then, cr_called counts the calls of the underlying repository   *)
(* made by the current call, cr_prev is the handle, outcome and mark of    *)
(* the call before.  cr_other is the second caller: the calls it has made, *)
(* the users it has still to store, whether the first Store of the next    *)
(* user is done, and the Stores it has made.                               *)
(***************************************************************************)
MaxOtherCalls == 1

CachedHandles == {<<"a">>, <<"b">>, <<"A">>}

\* what the underlying repository can return for a handle: an error, or the
\* user of the platform's directory (handles are matched case-insensitively
\* there, the record carries the canonical handle), or neither
UnderlyingDirectory == {Alice, Bob, BobBusy}

UnderlyingResults(username) ==
    {[user |-> Nil, err |-> TRUE], [user |-> Nil, err |-> FALSE]} \cup
    {[user |-> Ptr(u), err |-> FALSE] :
        u \in {v \in UnderlyingDirectory : v.Username = ToLower(username)}}

\* InMemoryCache.StoreUser as one step of a single caller: the two maps after it
StoreUser(maps, user) ==
    <<MapPut(maps[1], user.ID, user), MapPut(maps[2], user.Username, user)>>

CachedStoringMethods ==
    {"ListMergeRequests", "GetMergeRequestApprovals", "GetMergeRequest",
     "PreloadUsersByUsernames", "GetCurrentUser"}

\* the merge requests the underlying repository returns
CachedMRPool ==
    {MergeRequest(1, 1, Ptr(Alice), Nil, <<Ptr(Bob), Nil>>, FALSE),
     MergeRequest(2, 1, Ptr(BobBusy), Ptr(Alice), <<>>, FALSE)}

\* the pointers of a slice that are not nil, in order
RECURSIVE NotNil(_)
NotNil(ptrs) ==
    IF ptrs = <<>> THEN <<>>
    ELSE IF Head(ptrs) # Nil THEN <<Head(ptrs)[1]>> \o NotNil(Tail(ptrs))
    ELSE NotNil(Tail(ptrs))

\* the users ListMergeRequests and GetMergeRequest pass to StoreUser for one
\* merge request: the author, the assignee, the reviewers, unless nil
StoredOfMR(mr) == NotNil(<<mr.Author, mr.Assignee>> \o mr.Reviewers)

\* the users a successful call of the method passes to StoreUser, in order
CachedStoredUsers(method) ==
    CASE method = "ListMergeRequests" ->
            {<<>>} \cup {StoredOfMR(mr) : mr \in CachedMRPool}
      [] method = "GetMergeRequest" -> {StoredOfMR(mr) : mr \in CachedMRPool}
      [] method \in {"GetMergeRequestApprovals", "PreloadUsersByUsernames"} ->
            {NotNil(users) : users \in {<<>>, <<Ptr(Alice)>>, <<Nil, Ptr(Bob)>>}}
      [] method = "GetCurrentUser" -> {NotNil(<<user>>) : user \in {Nil, Ptr(Alice), Ptr(Bob)}}

CachedRepoInit ==
    /\ cr_pc = "ready"
    /\ cr_n = 0
    /\ cr_username = <<>>
    /\ cr_pre = <<EmptyMap, EmptyMap>>
    /\ cr_hit = FALSE
    /\ cr_called = 0
    /\ cr_ret = Nil
    /\ cr_prev = Nil
    /\ cr_mark = 0
    /\ cr_other = [n |-> 0, pending |-> <<>>, half |-> FALSE, stores |-> 0]

\* line 151: r.cache.GetUserByUsername(username); a hit returns the cached user
CachedLookup(username) ==
    /\ cr_pc = "ready"
    /\ cr_n < MaxLookups
    /\ cr_n' = cr_n + 1
    /\ cr_username' = username
    /\ cr_pre' = <<c_byID, c_byUsername>>
    /\ cr_mark' = cr_other.stores
    /\ cr_called' = 0
    /\ LET hit == GetUserByUsername(username) IN
        /\ cr_hit' = hit.ok
        /\ IF hit.ok
           THEN /\ cr_ret' = Ptr([user |-> hit.user, err |-> FALSE])
                /\ cr_pc' = "returned"
           ELSE /\ cr_ret' = Nil
                /\ cr_pc' = "repo"
    /\ UNCHANGED <<cr_prev, cr_other, c_byID, c_byUsername>>
    /\ UNCHANGED crOthers

\* mutant: negative caching, a failed lookup stores a placeholder for the handle
CachedRepoCallNegativeCaching ==
    /\ cr_pc = "repo"
    /\ cr_called' = cr_called + 1
    /\ \E res \in UnderlyingResults(cr_username) :
        /\ cr_ret' = Ptr(res)
        /\ cr_pc' = IF ~res.err /\ res.user # Nil THEN "byID" ELSE "returned"
        /\ IF res.err
           THEN c_byUsername' = MapPut(c_byUsername, cr_username,
                                       User(0, cr_username, StatusAvailable))
           ELSE UNCHANGED c_byUsername
    /\ UNCHANGED <<cr_n, cr_username, cr_pre, cr_hit, cr_prev, cr_mark, cr_other, c_byID>>
    /\ UNCHANGED crOthers

\* lines 155-160: the miss path: r.repo.GetUserByUsername returns; its error is
\* returned, and so is a nil user
CachedRepoCall ==
    /\ cr_pc = "repo"
    /\ cr_called' = cr_called + 1
    /\ \E res \in UnderlyingResults(cr_username) :
        /\ cr_ret' = Ptr(res)
        /\ cr_pc' = IF ~res.err /\ res.user # Nil THEN "byID" ELSE "returned"
    /\ UNCHANGED <<cr_n, cr_username, cr_pre, cr_hit, cr_prev, cr_mark, cr_other,
                   c_byID, c_byUsername>>
    /\ UNCHANGED crOthers

\* line 161: r.cache.StoreUser(user), its first Store
CachedStoreByID ==
    /\ cr_pc = "byID"
    /\ c_byID' = MapPut(c_byID, cr_ret[1].user[1].ID, cr_ret[1].user[1])
    /\ cr_pc' = "byUsername"
    /\ UNCHANGED <<cr_n, cr_username, cr_pre, cr_hit, cr_called, cr_ret, cr_prev, cr_mark,
                   cr_other, c_byUsername>>
    /\ UNCHANGED crOthers

\* r.cache.StoreUser(user), its second Store; return user, nil
CachedStoreByUsername ==
    /\ cr_pc = "byUsername"
    /\ c_byUsername' = MapPut(c_byUsername, cr_ret[1].user[1].Username, cr_ret[1].user[1])
    /\ cr_pc' = "returned"
    /\ UNCHANGED <<cr_n, cr_username, cr_pre, cr_hit, cr_called, cr_ret, cr_prev, cr_mark,
                   cr_other, c_byID>>
    /\ UNCHANGED crOthers

\* the caller has the result and goes on to its next call
CachedNextCall ==
    /\ cr_pc = "returned"
    /\ cr_prev' = Ptr([username |-> cr_username, err |-> cr_ret[1].err, mark |-> cr_mark])
    /\ cr_pc' = "ready"
    /\ UNCHANGED <<cr_n, cr_username, cr_pre, cr_hit, cr_called, cr_ret, cr_mark, cr_other,
                   c_byID, c_byUsername>>
    /\ UNCHANGED crOthers

\* ListMergeRequests, GetMergeRequestApprovals, GetMergeRequest,
\* PreloadUsersByUsernames or GetCurrentUser: the underlying call returns an
\* error, which is returned, or the users the method goes on to store
CachedStoringCall(method) ==
    /\ cr_other.pending = <<>>
    /\ cr_other.n < MaxOtherCalls
    /\ \E ok \in BOOLEAN, users \in CachedStoredUsers(method) :
        cr_other' = [cr_other EXCEPT !.n = @ + 1,
                                     !.pending = IF ok THEN users ELSE <<>>]
    /\ UNCHANGED <<cr_pc, cr_n, cr_username, cr_pre, cr_hit, cr_called, cr_ret, cr_prev,
                   cr_mark, c_byID, c_byUsername>>
    /\ UNCHANGED crOthers

\* r.cache.StoreUser of the next user of the result, its first Store
CachedOtherStoreByID ==
    /\ cr_other.pending # <<>>
    /\ ~cr_other.half
    /\ c_byID' = MapPut(c_byID, Head(cr_other.pending).ID, Head(cr_other.pending))
    /\ cr_other' = [cr_other EXCEPT !.half = TRUE, !.stores = @ + 1]
    /\ UNCHANGED <<cr_pc, cr_n, cr_username, cr_pre, cr_hit, cr_called, cr_ret, cr_prev,
                   cr_mark, c_byUsername>>
    /\ UNCHANGED crOthers

\* its second Store
CachedOtherStoreByUsername ==
    /\ cr_other.pending # <<>>
    /\ cr_other.half
    /\ c_byUsername' = MapPut(c_byUsername, Head(cr_other.pending).Username,
                              Head(cr_other.pending))
    /\ cr_other' = [cr_other EXCEPT !.half = FALSE, !.stores = @ + 1,
                                     !.pending = Tail(@)]
    /\ UNCHANGED <<cr_pc, cr_n, cr_username, cr_pre, cr_hit, cr_called, cr_ret, cr_prev,
                   cr_mark, c_byID>>
    /\ UNCHANGED crOthers

InitCachedRepo == CachedRepoInit /\ IdleBut("cr")
NextCachedRepo ==
    \/ \E username \in CachedHandles : CachedLookup(username)
    \/ CachedRepoCall
    \/ CachedStoreByID
    \/ CachedStoreByUsername
    \/ CachedNextCall
    \/ \E method \in CachedStoringMethods : CachedStoringCall(method)
    \/ CachedOtherStoreByID
    \/ CachedOtherStoreByUsername
SpecCachedRepo == InitCachedRepo /\ [][NextCachedRepo]_vars

CrReturned == cr_pc = "returned"
CrCacheNow == <<c_byID, c_byUsername>>

\* the second caller has stored nothing since the lookup of the current call
CrAlone == cr_other.stores = cr_mark

\* the outcome of a returned call of GetUserByUsername
C11_Outcome ==
    CrReturned =>
        /\ cr_username \in DOMAIN cr_pre[2] =>
              /\ cr_called = 0
              /\ cr_ret[1] = [user |-> Ptr(cr_pre[2][cr_username]), err |-> FALSE]
              /\ CrAlone => CrCacheNow = cr_pre
        /\ cr_username \notin DOMAIN cr_pre[2] => cr_called = 1
        /\ (CrAlone /\ CrCacheNow # cr_pre) =>
              /\ ~cr_ret[1].err /\ cr_ret[1].user # Nil
              /\ CrCacheNow = StoreUser(cr_pre, cr_ret[1].user[1])
        /\ (CrAlone /\ (cr_ret[1].err \/ cr_ret[1].user = Nil)) => CrCacheNow = cr_pre
        /\ (CrAlone /\ ~cr_ret[1].err /\ cr_ret[1].user # Nil /\ cr_called = 1) =>
              CrCacheNow = StoreUser(cr_pre, cr_ret[1].user[1])
        /\ (/\ cr_prev # Nil /\ cr_prev[1].err /\ cr_prev[1].username = cr_username
            /\ cr_prev[1].mark = cr_mark) =>
              cr_called = 1

\* a step of a GetUserByUsername call writes the cache only as a Store of the
\* user the underlying repository has returned without an error
C11_CallerStep ==
    (cr_pc' # cr_pc /\ <<c_byID, c_byUsername>>' # <<c_byID, c_byUsername>>) =>
        /\ cr_ret # Nil /\ ~cr_ret[1].err /\ cr_ret[1].user # Nil
        /\ cr_called = 1
        /\ \/ /\ cr_pc = "byID"
              /\ c_byID' = MapPut(c_byID, cr_ret[1].user[1].ID, cr_ret[1].user[1])
              /\ UNCHANGED c_byUsername
           \/ /\ cr_pc = "byUsername"
              /\ c_byUsername' = MapPut(c_byUsername, cr_ret[1].user[1].Username,
                                        cr_ret[1].user[1])
              /\ UNCHANGED c_byID

\* C11: a call whose handle is in the cache returns the cached user without
\* calling the underlying repository; on a miss the underlying repository
\* is called once, the call changes the cache only by StoreUser of the user
\* of a successful call, a failed call leaves the cache as it was, and the
\* call for the same handle right after a failed one calls the repository
\* again.
C11_ReadThroughNoNegativeCaching == []C11_Outcome /\ [][C11_CallerStep]_vars

\* a failed lookup followed, with no Store of the second caller between
\* them, by a lookup of the same handle that queried the repository again
\* and stored the user
C11_Witness ==
    /\ CrReturned
    /\ cr_prev # Nil /\ cr_prev[1].err /\ cr_prev[1].username = cr_username
    /\ cr_prev[1].mark = cr_mark /\ CrAlone
    /\ cr_called = 1
    /\ ~cr_ret[1].err /\ cr_ret[1].user # Nil
    /\ CrCacheNow # cr_pre

\* a failed lookup followed by a hit for the same handle: the second caller
\* has stored the user between them
C11_WitnessFilledByOther ==
    /\ CrReturned
    /\ cr_prev # Nil /\ cr_prev[1].err /\ cr_prev[1].username = cr_username
    /\ cr_called = 0
    /\ cr_other.stores > 0

C11_WitnessHit ==
    /\ CrReturned
    /\ cr_username \in DOMAIN cr_pre[2]
    /\ cr_called = 0


(***************************************************************************)
(* The classifier functions isUserInvolvedInMR, hasUserApprovedMR and      *)
(* isUserAvailable (app.go): one call of one of them on arguments drawn    *)
(* from bounded sets.  A slice argument is its elements and whether it is  *)
(* the nil slice.                                                          *)
(***************************************************************************)
ClassifierUsers == {Alice, Bob, Carol}

ClassifierMRs ==
    {Nil} \cup
    {Ptr(MergeRequest(1, 1, author, assignee, reviewers, draft)) :
        author \in {Nil, Ptr(Alice), Ptr(Bob)},
        assignee \in {Nil, Ptr(Alice), Ptr(Bob)},
        reviewers \in SeqsUpTo(ClassifierUsers, MaxReviewers),
        draft \in BOOLEAN}

ClassifierUserIDs == 0..4

NilSlice == [nil |-> TRUE, elems |-> <<>>]

ClassifierApprovals ==
    {NilSlice} \cup
    {[nil |-> FALSE, elems |-> a] : a \in SeqsUpTo(ClassifierUsers, MaxApprovals)}

ClassifierMessages ==
    SeqsUpTo({"o", "O", "x"}, MaxMessageLen) \cup
    {<<"W","o","r","k","i","n","g">>,
     <<"O","n"," ","v","a","c","a","t","i","o","n">>,
     <<"o","o","o"," ","u","n","t","i","l"," ","n","e","x","t"," ","w","e","e","k">>,
     <<"V","A","C","A","T","I","O","N">>,
     <<"V","a","C","a","T","i","O","n","s">>,
     <<"v","a","c","a","t","i","o">>,
     <<"v","a","c","a"," ","t","i","o","n">>,
     <<"z","o","o","O","m">>,
     <<"b","u","s","y">>}

ClassifierAvailabilities ==
    {<<>>,
     <<"a","v","a","i","l","a","b","l","e">>,
     <<"b","u","s","y">>, <<"B","U","S","Y">>, <<"B","u","s","y">>, <<"b","U","s","Y">>,
     <<"b","u","s","y"," ">>, <<"b","u","s">>, <<"n","o","t","_","s","e","t">>,
     <<"o","o","o">>}

ClassifierStatusUsers ==
    {[ID |-> 1, Username |-> <<"a">>, Email |-> <<"a","@","x">>,
      Status |-> [Message |-> m, Availability |-> a]] :
        m \in ClassifierMessages, a \in ClassifierAvailabilities}

ClassifierInit ==
    /\ cl_pc = "call"
    /\ cl_op \in {"isUserInvolvedInMR", "hasUserApprovedMR", "isUserAvailable"}
    /\ cl_out = Nil
    /\ IF cl_op = "isUserInvolvedInMR"
       THEN cl_mr \in ClassifierMRs /\ cl_userID \in ClassifierUserIDs
       ELSE IF cl_op = "hasUserApprovedMR"
       THEN cl_mr = Nil /\ cl_userID \in ClassifierUserIDs
       ELSE cl_mr = Nil /\ cl_userID = 0
    /\ IF cl_op = "hasUserApprovedMR"
       THEN cl_approvals \in ClassifierApprovals
       ELSE cl_approvals = NilSlice
    /\ IF cl_op = "isUserAvailable"
       THEN \E u \in ClassifierStatusUsers : cl_user = Ptr(u)
       ELSE cl_user = Nil

CallIsUserInvolvedInMR ==
    /\ cl_pc = "call" /\ cl_op = "isUserInvolvedInMR"
    /\ cl_out' = Ptr(isUserInvolvedInMR(cl_mr, cl_userID))
    /\ cl_pc' = "done"
    /\ UNCHANGED <<cl_op, cl_mr, cl_userID, cl_approvals, cl_user>>
    /\ UNCHANGED clOthers

CallHasUserApprovedMR ==
    /\ cl_pc = "call" /\ cl_op = "hasUserApprovedMR"
    /\ cl_out' = Ptr(hasUserApprovedMR(cl_approvals.elems, cl_userID))
    /\ cl_pc' = "done"
    /\ UNCHANGED <<cl_op, cl_mr, cl_userID, cl_approvals, cl_user>>
    /\ UNCHANGED clOthers

CallIsUserAvailable ==
    /\ cl_pc = "call" /\ cl_op = "isUserAvailable"
    /\ cl_out' = Ptr(isUserAvailable(cl_user[1]))
    /\ cl_pc' = "done"
    /\ UNCHANGED <<cl_op, cl_mr, cl_userID, cl_approvals, cl_user>>
    /\ UNCHANGED clOthers

InitClassifier == ClassifierInit /\ IdleBut("cl")
NextClassifier ==
    \/ CallIsUserInvolvedInMR
    \/ CallHasUserApprovedMR
    \/ CallIsUserAvailable
SpecClassifier == InitClassifier /\ [][NextClassifier]_vars

ClDone(op) == cl_pc = "done" /\ cl_op = op

\* C18: isUserInvolvedInMR(mr, userID) is true exactly when mr is not nil,
\* not a draft, userID is not the author's ID and userID is the ID of the
\* assignee or of some reviewer.
C18_InvolvedExactly ==
    ClDone("isUserInvolvedInMR") =>
        cl_out[1] =
            /\ cl_mr # Nil
            /\ ~cl_mr[1].Draft
            /\ ~\E a \in {cl_mr[1].Author[k] : k \in DOMAIN cl_mr[1].Author} : a.ID = cl_userID
            /\ \/ \E a \in {cl_mr[1].Assignee[k] : k \in DOMAIN cl_mr[1].Assignee} : a.ID = cl_userID
               \/ \E k \in DOMAIN cl_mr[1].Reviewers : cl_mr[1].Reviewers[k].ID = cl_userID

\* the author is also assignee and reviewer, and is not involved
C18_Witness ==
    /\ ClDone("isUserInvolvedInMR")
    /\ cl_mr # Nil /\ ~cl_mr[1].Draft
    /\ cl_mr[1].Author = Ptr(Alice) /\ cl_mr[1].Assignee = Ptr(Alice)
    /\ cl_mr[1].Reviewers = <<Bob, Alice>>
    /\ cl_userID = 1
    /\ cl_out = Ptr(FALSE)

\* a draft whose assignee and second reviewer is the user
C18_WitnessDraft ==
    /\ ClDone("isUserInvolvedInMR")
    /\ cl_mr # Nil /\ cl_mr[1].Draft
    /\ cl_mr[1].Assignee = Ptr(Bob) /\ cl_mr[1].Author = Nil
    /\ cl_userID = 2
    /\ cl_out = Ptr(FALSE)

C18_WitnessReviewer ==
    /\ ClDone("isUserInvolvedInMR")
    /\ cl_mr # Nil /\ cl_mr[1].Assignee = Nil
    /\ cl_mr[1].Reviewers = <<Bob, Carol>>
    /\ cl_userID = 3
    /\ cl_out = Ptr(TRUE)

\* C19: hasUserApprovedMR(approvals, userID) is true if and only if some
\* approval has the ID userID; it is false for the nil and the empty list.
C19_ApprovedIffListed ==
    ClDone("hasUserApprovedMR") =>
        /\ cl_out # Nil
        /\ cl_out[1] = (\E k \in DOMAIN cl_approvals.elems : cl_approvals.elems[k].ID = cl_userID)
        /\ cl_approvals.elems = <<>> => cl_out[1] = FALSE

\* the user is the last of two approvals
C19_Witness ==
    /\ ClDone("hasUserApprovedMR")
    /\ cl_approvals.elems = <<Bob, Alice>>
    /\ cl_userID = 1
    /\ cl_out = Ptr(TRUE)

C19_WitnessNil ==
    /\ ClDone("hasUserApprovedMR")
    /\ cl_approvals = NilSlice
    /\ cl_out = Ptr(FALSE)

\* two characters that are equal up to the case of an ASCII letter
FoldEq(a, b) ==
    a = b \/ \E k \in 1..26 : {a, b} = {UpperLetters[k], LowerLetters[k]}

EqualsFold(s, w) ==
    Len(s) = Len(w) /\ \A k \in 1..Len(w) : FoldEq(s[k], w[k])

ContainsFold(s, w) ==
    \E i \in 0..(Len(s) - Len(w)) : \A k \in 1..Len(w) : FoldEq(s[i + k], w[k])

\* C20: isUserAvailable(user) is false when the status message contains
\* "ooo" or "vacation" in any case, false when the availability is "busy" in
\* any case, and true otherwise.
C20_AvailableUnlessMarked ==
    ClDone("isUserAvailable") =>
        cl_out[1] =
            ~ \/ ContainsFold(cl_user[1].Status.Message, <<"o","o","o">>)
              \/ ContainsFold(cl_user[1].Status.Message, <<"v","a","c","a","t","i","o","n">>)
              \/ EqualsFold(cl_user[1].Status.Availability, <<"b","u","s","y">>)

\* a mixed-case marker inside a longer message
C20_Witness ==
    /\ ClDone("isUserAvailable")
    /\ cl_user[1].Status.Message = <<"V","a","C","a","T","i","O","n","s">>
    /\ cl_user[1].Status.Availability = <<"a","v","a","i","l","a","b","l","e">>
    /\ cl_out = Ptr(FALSE)

C20_WitnessBusy ==
    /\ ClDone("isUserAvailable")
    /\ cl_user[1].Status.Message = <<"x","o","O">>
    /\ cl_user[1].Status.Availability = <<"b","U","s","Y">>
    /\ cl_out = Ptr(FALSE)

\* "busy" in the message and "ooo" as the availability mark nothing
C20_WitnessAvailable ==
    /\ ClDone("isUserAvailable")
    /\ cl_user[1].Status.Message = <<"b","u","s","y">>
    /\ cl_user[1].Status.Availability = <<"o","o","o">>
    /\ cl_out = Ptr(TRUE)


(***************************************************************************)
(* The engine entry points (app.go).  An entry point runs from gateway     *)
(* call to gateway call: every action is one call of the Repository        *)
(* interface together with the code up to the next call.  eg_env is what   *)
(* the gateway holds during the call and which of its calls fail, chosen   *)
(* at the start; eg_calls lists the calls made, eg_loc holds the local     *)
(* variables of the entry point, eg_ret the returned (value, error), the   *)
(* value being a pointer that is nil where the code returns nil.           *)
(***************************************************************************)
EngineMR(iid, pid, author, assignee, reviewers, draft, updatedAt, branch) ==
    [UpdatedAt |-> updatedAt, SourceBranch |-> branch] @@
    MergeRequest(iid, pid, author, assignee, reviewers, draft)

\* the open merge requests the gateway can hold; UpdatedAt is in hours
\* since 00:00 of a Monday
EngineMRPool ==
    {EngineMR(1, 1, Ptr(Alice), Ptr(Bob), <<>>, FALSE, 150, "feat"),
     EngineMR(2, 1, Ptr(Alice), Ptr(Bob), <<>>, FALSE, 50, "main"),
     EngineMR(1, 2, Ptr(Alice), Ptr(Bob), <<>>, FALSE, 150, "feat"),
     EngineMR(3, 1, Ptr(Bob), Ptr(Alice), <<Bob>>, FALSE, 100, "fix"),
     EngineMR(4, 1, Ptr(Carol), Nil, <<Alice, Bob>>, TRUE, 220, "feat"),
     EngineMR(3, 2, Nil, Ptr(Alice), <<Carol, Bob>>, FALSE, 50, "main")}

MRKey(mr) == <<mr.ProjectID, mr.IID>>

\* the configured team handles (cfg.TeamUsers)
EngineTeams ==
    {<<>>, << <<"a">> >>, << <<"a">>, <<"b">> >>, << <<"b">>, <<"a">> >>,
     << <<"a">>, <<"a">> >>, << <<"b">>, <<"z">>, <<"a">> >>}

\* a directory user without an email
NoEmailUser == [Carol EXCEPT !.Email = <<>>]

\* the slices the gateway's GetAllUsers can return
EngineAllUsers == {<<Alice, NoEmailUser>>, <<Bob, Alice>>}

\* the author emails of the commits the gateway's ListCommits returns
EngineCommits ==
    << <<"a","@","x">>, <<"b","@","x">>, <<>>, <<"b","@","x">>, <<"q","@","x">> >>

BatchCalls == {"GetAllUsers", "ListCommits", "ListMergeRequests"}

EngineCall(name, arg, ok) == [name |-> name, arg |-> arg, ok |-> ok]

Returned(value, err) == [value |-> value, err |-> err]

\* the gateway's GetUserByUsername: a pointer to the user, nil for an error
RepoGetUserByUsername(env, username) ==
    LET found == {u \in {Alice, Bob, Carol} : u.Username = username}
    IN  IF username \in env.failUsers \/ found = {} THEN Nil
        ELSE Ptr(CHOOSE u \in found : TRUE)

\* the gateway's GetMergeRequestApprovals: a pointer to the list, nil for an error
RepoGetMergeRequestApprovals(env, projectID, iid) ==
    IF <<projectID, iid>> \in env.failApprovals THEN Nil
    ELSE Ptr(GatewayApprovals(projectID, iid))

\* Go's m[k] for a map of integers: the zero value for a missing key
MapGetInt(m, k) == IF k \in DOMAIN m THEN m[k] ELSE 0

EngineLocals ==
    [index |-> EmptyMap, userCommits |-> EmptyMap, commits |-> <<>>, ci |-> 0,
     mrs |-> <<>>, ti |-> 0, mi |-> 0, user |-> Nil, count |-> 0,
     relevant |-> <<>>, active |-> <<>>, workloads |-> <<>>, out |-> <<>>,
     currentProjectID |-> 0, currentBranch |-> "", threeWorkingDaysAgo |-> 0]

\* time.Now(): Wednesday of the second week, 10:00
EngineNow == 226

EngineEnvs(failCalls) ==
    {[team |-> team, failUsers |-> fu, allUsers |-> au, commits |-> EngineCommits,
      failCall |-> fc, open |-> open, failApprovals |-> fa,
      currentUser |-> Bob, projectID |-> 0, branch |-> "", now |-> EngineNow] :
        team \in EngineTeams, fu \in SUBSET {<<"a">>, <<"b">>}, au \in EngineAllUsers,
        fc \in failCalls, open \in DistinctSeqsUpTo(EngineMRPool, MaxOpenMRs),
        fa \in {{}} \cup {{<<p, i>>} : p \in 1..2, i \in 1..4}}

\* the calls that fail are calls the entry point can make: a failing batch
\* call leaves no merge requests to look at, and at most one approval fetch,
\* of a listed merge request, fails
EngineEnvOk(env) ==
    /\ env.failCall # "none" => env.open = <<>>
    /\ env.failApprovals \subseteq {MRKey(env.open[i]) : i \in DOMAIN env.open}

\* the process starts: NewApp is to run, and after it one entry point
EngineInit(op, envs) ==
    /\ eg_op = op
    /\ eg_env \in envs
    /\ EngineEnvOk(eg_env)
    /\ eg_pc = "NewApp"
    /\ eg_calls = <<>>
    /\ eg_loc = EngineLocals
    /\ eg_ret = Nil

\* the first call of an entry point
EngineFirstStep(op) ==
    IF op \in {"AnalyzeWorkload"} THEN "GetAllUsers"
    ELSE IF op \in {"AnalyzeActiveMRs", "GetMergeRequestsWithStatus"} THEN "ListMergeRequests"
    ELSE "GetCurrentUser"

\* NewApp: repo.PreloadUsersByUsernames(ctx, cfg.TeamUsers), whose error is
\* printed as a warning and dropped; the App is returned and the entry
\* point is called on it
NewApp ==
    /\ eg_pc = "NewApp"
    /\ \E ok \in BOOLEAN :
        eg_calls' = Append(eg_calls, EngineCall("PreloadUsersByUsernames", eg_env.team, ok))
    /\ eg_pc' = EngineFirstStep(eg_op)
    /\ UNCHANGED <<eg_op, eg_env, eg_loc, eg_ret, faVars>>
    /\ UNCHANGED egOthers

EngineReturned == eg_pc = "returned"


(***************************************************************************)
(* AnalyzeWorkload                                                         *)
(***************************************************************************)
\* buildEmailToUserIDMap, the loop over allUsers from index i on
\* mutant: users without an email enter the index too
RECURSIVE BuildIndexKeepingEmpty(_, _, _)
BuildIndexKeepingEmpty(allUsers, i, index) ==
    IF i > Len(allUsers) THEN index
    ELSE BuildIndexKeepingEmpty(allUsers, i + 1, MapPut(index, allUsers[i].Email, allUsers[i].ID))

RECURSIVE BuildIndexFrom(_, _, _)
BuildIndexFrom(allUsers, i, index) ==
    IF i > Len(allUsers) THEN index
    ELSE IF allUsers[i].Email # <<>>
    THEN BuildIndexFrom(allUsers, i + 1, MapPut(index, allUsers[i].Email, allUsers[i].ID))
    ELSE BuildIndexFrom(allUsers, i + 1, index)

\* strings.Split(email, "@")[0]
RECURSIVE LocalPartFrom(_, _)
LocalPartFrom(email, i) ==
    IF i > Len(email) \/ email[i] = "@" THEN SubSeq(email, 1, i - 1)
    ELSE LocalPartFrom(email, i + 1)

LocalPart(email) == LocalPartFrom(email, 1)

\* userCommits[userID]++
CountCommit(loc, userID) ==
    [loc EXCEPT !.userCommits = MapPut(@, userID, MapGetInt(@, userID) + 1)]

\* countUserCommits, the loop from commit loc.ci on, up to the next commit
\* whose author has to be looked up by handle
RECURSIVE CommitsAdvance(_)
CommitsAdvance(loc) ==
    IF loc.ci > Len(loc.commits) THEN loc
    ELSE LET email == loc.commits[loc.ci] IN
         IF email = <<>> THEN CommitsAdvance([loc EXCEPT !.ci = @ + 1])
         ELSE IF email \in DOMAIN loc.index
         THEN CommitsAdvance(CountCommit([loc EXCEPT !.ci = @ + 1], loc.index[email]))
         ELSE loc

\* AnalyzeWorkload, the loop over mrs from loc.mi on, up to the next merge
\* request the user is involved in
RECURSIVE MRsAdvance(_)
MRsAdvance(loc) ==
    IF loc.mi > Len(loc.mrs) THEN loc
    ELSE IF ~isUserInvolvedInMR(Ptr(loc.mrs[loc.mi]), loc.user[1].ID)
    THEN MRsAdvance([loc EXCEPT !.mi = @ + 1])
    ELSE loc

\* lines 95-99: append the member's workload
AwFinishMember(loc) ==
    [loc EXCEPT !.workloads = Append(@, UserWorkload(loc.user[1], loc.count,
                                        MapGetInt(loc.userCommits, loc.user[1].ID))),
                !.ti = @ + 1]

\* the loop over the team handles goes on with handle loc.ti, or ends
AwTeamNext(loc) ==
    /\ eg_loc' = loc
    /\ IF loc.ti <= Len(eg_env.team)
       THEN eg_pc' = "team" /\ UNCHANGED eg_ret
       ELSE eg_pc' = "returned" /\ eg_ret' = Ptr(Returned(Ptr(loc.workloads), "nil"))

\* the loop over mrs goes on with the approvals of mrs[loc.mi], or ends
AwMemberNext(loc) ==
    IF loc.mi <= Len(loc.mrs)
    THEN eg_loc' = loc /\ eg_pc' = "approvals" /\ UNCHANGED eg_ret
    ELSE AwTeamNext(AwFinishMember(loc))

\* mutant: a failed batch-level fetch gives an empty list and no error
AwBatchFailedSwallowed(err) ==
    /\ eg_pc' = "returned"
    /\ eg_ret' = Ptr(Returned(Ptr(<<>>), "nil"))
    /\ UNCHANGED eg_loc

\* return nil, err
AwBatchFailed(err) ==
    /\ eg_pc' = "returned"
    /\ eg_ret' = Ptr(Returned(Nil, err))
    /\ UNCHANGED eg_loc

\* mutant: a failed handle lookup aborts the analysis
AwLookupFailedAborts(loc) ==
    /\ eg_pc' = "returned"
    /\ eg_ret' = Ptr(Returned(Nil, "failed to get user"))
    /\ eg_loc' = loc

\* lines 75-77: continue
AwLookupFailed(loc) == AwTeamNext([loc EXCEPT !.ti = @ + 1])

\* mutant: every merge request the user is involved in counts
AwCountAlways(loc, approvals) == [loc EXCEPT !.count = @ + 1, !.mi = @ + 1]

\* lines 90-92
AwCountUnlessApproved(loc, approvals) ==
    IF ~hasUserApprovedMR(approvals, loc.user[1].ID)
    THEN [loc EXCEPT !.count = @ + 1, !.mi = @ + 1]
    ELSE [loc EXCEPT !.mi = @ + 1]

AnalyzeWorkloadInit ==
    /\ EngineInit("AnalyzeWorkload", EngineEnvs(BatchCalls \cup {"none"}))

\* line 57, buildEmailToUserIDMap
AwGetAllUsers ==
    /\ eg_op = "AnalyzeWorkload" /\ eg_pc = "GetAllUsers"
    /\ IF eg_env.failCall = "GetAllUsers"
       THEN /\ eg_calls' = Append(eg_calls, EngineCall("GetAllUsers", <<>>, FALSE))
            /\ AwBatchFailed("failed to get all users")
       ELSE /\ eg_calls' = Append(eg_calls, EngineCall("GetAllUsers", <<>>, TRUE))
            /\ eg_loc' = [eg_loc EXCEPT !.index = BuildIndexFrom(eg_env.allUsers, 1, EmptyMap)]
            /\ eg_pc' = "ListCommits"
            /\ UNCHANGED eg_ret
    /\ UNCHANGED <<eg_op, eg_env, faVars>>
    /\ UNCHANGED egOthers

\* after countUserCommits: line 67 is next
AwCommitsNext(loc) ==
    /\ eg_loc' = loc
    /\ eg_pc' = IF loc.ci <= Len(loc.commits) THEN "commits" ELSE "ListMergeRequests"
    /\ UNCHANGED eg_ret

\* line 62, countUserCommits: ListCommits and the commits resolved by the index
AwListCommits ==
    /\ eg_op = "AnalyzeWorkload" /\ eg_pc = "ListCommits"
    /\ IF eg_env.failCall = "ListCommits"
       THEN /\ eg_calls' = Append(eg_calls, EngineCall("ListCommits", <<>>, FALSE))
            /\ AwBatchFailed("failed to get commits")
       ELSE /\ eg_calls' = Append(eg_calls, EngineCall("ListCommits", <<>>, TRUE))
            /\ AwCommitsNext(CommitsAdvance([eg_loc EXCEPT !.commits = eg_env.commits, !.ci = 1]))
    /\ UNCHANGED <<eg_op, eg_env, faVars>>
    /\ UNCHANGED egOthers

\* mutant: the resolved email is not added to the index
AwCommitLookupNoMemo ==
    /\ eg_op = "AnalyzeWorkload" /\ eg_pc = "commits"
    /\ LET email == eg_loc.commits[eg_loc.ci]
           username == LocalPart(email)
           user == RepoGetUserByUsername(eg_env, username)
       IN  /\ eg_calls' = Append(eg_calls, EngineCall("GetUserByUsername", username, user # Nil))
           /\ IF user = Nil
              THEN AwCommitsNext(CommitsAdvance([eg_loc EXCEPT !.ci = @ + 1]))
              ELSE AwCommitsNext(CommitsAdvance(
                       CountCommit([eg_loc EXCEPT !.ci = @ + 1], user[1].ID)))
    /\ UNCHANGED <<eg_op, eg_env, faVars>>
    /\ UNCHANGED egOthers

\* lines 631-642: the lookup by handle for a commit whose email is not in the index
AwCommitLookup ==
    /\ eg_op = "AnalyzeWorkload" /\ eg_pc = "commits"
    /\ LET email == eg_loc.commits[eg_loc.ci]
           username == LocalPart(email)
           user == RepoGetUserByUsername(eg_env, username)
       IN  /\ eg_calls' = Append(eg_calls, EngineCall("GetUserByUsername", username, user # Nil))
           /\ IF user = Nil
              THEN AwCommitsNext(CommitsAdvance([eg_loc EXCEPT !.ci = @ + 1]))
              ELSE AwCommitsNext(CommitsAdvance(
                       CountCommit([eg_loc EXCEPT !.index = MapPut(@, email, user[1].ID),
                                                  !.ci = @ + 1], user[1].ID)))
    /\ UNCHANGED <<eg_op, eg_env, faVars>>
    /\ UNCHANGED egOthers

\* line 67
AwListMergeRequests ==
    /\ eg_op = "AnalyzeWorkload" /\ eg_pc = "ListMergeRequests"
    /\ IF eg_env.failCall = "ListMergeRequests"
       THEN /\ eg_calls' = Append(eg_calls, EngineCall("ListMergeRequests", <<>>, FALSE))
            /\ AwBatchFailed("failed to get merge requests")
       ELSE /\ eg_calls' = Append(eg_calls, EngineCall("ListMergeRequests", <<>>, TRUE))
            /\ AwTeamNext([eg_loc EXCEPT !.mrs = eg_env.open, !.ti = 1])
    /\ UNCHANGED <<eg_op, eg_env, faVars>>
    /\ UNCHANGED egOthers

\* line 74: the lookup of the next team handle, and the merge requests the
\* user is not involved in
AwTeamLookup ==
    /\ eg_op = "AnalyzeWorkload" /\ eg_pc = "team"
    /\ LET username == eg_env.team[eg_loc.ti]
           user == RepoGetUserByUsername(eg_env, username)
       IN  /\ eg_calls' = Append(eg_calls, EngineCall("GetUserByUsername", username, user # Nil))
           /\ IF user = Nil
              THEN AwLookupFailed(eg_loc)
              ELSE AwMemberNext(MRsAdvance([eg_loc EXCEPT !.user = user, !.count = 0, !.mi = 1]))
    /\ UNCHANGED <<eg_op, eg_env, faVars>>
    /\ UNCHANGED egOthers

\* line 85: the approvals of a merge request the user is involved in
AwApprovals ==
    /\ eg_op = "AnalyzeWorkload" /\ eg_pc = "approvals"
    /\ LET mr == eg_loc.mrs[eg_loc.mi]
           approvals == RepoGetMergeRequestApprovals(eg_env, mr.ProjectID, mr.IID)
       IN  /\ eg_calls' = Append(eg_calls,
                              EngineCall("GetMergeRequestApprovals", MRKey(mr), approvals # Nil))
           /\ IF approvals = Nil
              THEN AwMemberNext(MRsAdvance([eg_loc EXCEPT !.mi = @ + 1]))
              ELSE AwMemberNext(MRsAdvance(AwCountUnlessApproved(eg_loc, approvals[1])))
    /\ UNCHANGED <<eg_op, eg_env, faVars>>
    /\ UNCHANGED egOthers

InitAnalyzeWorkload == AnalyzeWorkloadInit /\ IdleBut("eg")
NextAnalyzeWorkload ==
    \/ NewApp
    \/ AwGetAllUsers
    \/ AwListCommits
    \/ AwCommitLookup
    \/ AwListMergeRequests
    \/ AwTeamLookup
    \/ AwApprovals
SpecAnalyzeWorkload == InitAnalyzeWorkload /\ [][NextAnalyzeWorkload]_vars


AwFailedBatchCall(c) == c.name \in BatchCalls /\ ~c.ok

\* C13: when GetAllUsers, ListCommits or ListMergeRequests fails,
\* AnalyzeWorkload makes no gateway call after the failing one and returns a
\* nil workload list with a non-nil error.
C13_BatchFailureAborts ==
    /\ \A i \in DOMAIN eg_calls :
          AwFailedBatchCall(eg_calls[i]) =>
              /\ i = Len(eg_calls)
              /\ EngineReturned
              /\ eg_ret[1].value = Nil
              /\ eg_ret[1].err # "nil"
    /\ (EngineReturned /\ eg_env.failCall \in BatchCalls) =>
          /\ eg_calls[Len(eg_calls)] = EngineCall(eg_env.failCall, <<>>, FALSE)
          /\ eg_ret[1].value = Nil

\* ListMergeRequests fails after commit authors have been looked up
C13_Witness ==
    /\ EngineReturned
    /\ eg_env.failCall = "ListMergeRequests"
    /\ eg_ret[1].value = Nil /\ eg_ret[1].err # "nil"
    /\ \E i \in DOMAIN eg_calls : eg_calls[i].name = "GetUserByUsername" /\ eg_calls[i].ok
    /\ eg_env.team # <<>>

C13_WitnessCommits ==
    /\ EngineReturned
    /\ eg_env.failCall = "ListCommits"
    /\ Len(eg_calls) = 3
    /\ eg_calls[1].name = "PreloadUsersByUsernames"

\* the calls of GetUserByUsername made for the team handles: those after
\* the call of ListMergeRequests
AwTeamCalls ==
    LET at == CHOOSE i \in DOMAIN eg_calls : eg_calls[i].name = "ListMergeRequests"
        isLookup(c) == c.name = "GetUserByUsername"
    IN  SelectSeq(SubSeq(eg_calls, at + 1, Len(eg_calls)), isLookup)

AwAllBatchOk ==
    /\ EngineReturned
    /\ \A i \in DOMAIN eg_calls : ~AwFailedBatchCall(eg_calls[i])

\* C14: when the three batch-level fetches succeed, AnalyzeWorkload returns
\* no error and one workload per team handle whose lookup succeeded, in the
\* order of the handles; a handle whose lookup failed has no workload.
C14_OneWorkloadPerResolvedHandle ==
    AwAllBatchOk =>
        /\ eg_ret[1].err = "nil"
        /\ eg_ret[1].value # Nil
        /\ Len(AwTeamCalls) = Len(eg_env.team)
        /\ \A j \in DOMAIN eg_env.team : AwTeamCalls[j].arg = eg_env.team[j]
        /\ LET ws == eg_ret[1].value[1]
               resolved == Ascending({j \in DOMAIN eg_env.team : AwTeamCalls[j].ok})
           IN  /\ Len(ws) = Len(resolved)
               /\ \A k \in DOMAIN ws : ws[k].User.Username = eg_env.team[resolved[k]]

\* the middle handle of three does not resolve, an approval fetch fails
C14_Witness ==
    /\ AwAllBatchOk
    /\ Len(eg_env.team) = 3
    /\ eg_env.failUsers = {}
    /\ Len(eg_ret[1].value[1]) = 2
    /\ eg_ret[1].value[1][1].User = Bob
    /\ eg_ret[1].value[1][2].User = Alice
    /\ \E i \in DOMAIN eg_calls : eg_calls[i].name = "GetMergeRequestApprovals" /\ ~eg_calls[i].ok

\* a handle configured twice has two workloads
C14_WitnessTwice ==
    /\ AwAllBatchOk
    /\ eg_env.team = << <<"a">>, <<"a">> >>
    /\ Len(eg_ret[1].value[1]) = 2

\* no handle resolves: an empty, non-nil list and no error
C14_WitnessNone ==
    /\ AwAllBatchOk
    /\ Len(eg_env.team) = 2
    /\ eg_ret[1] = Returned(Ptr(<<>>), "nil")

\* the user a commit is attributed to: none for an empty author email, the
\* user of the directory entry with that email, else the user whose handle
\* is the part of the email before the "@"
CommitOwner(email) ==
    LET listed == {i \in DOMAIN eg_env.allUsers : eg_env.allUsers[i].Email = email}
    IN  IF email = <<>> THEN Nil
        ELSE IF listed # {}
        THEN Ptr(eg_env.allUsers[CHOOSE i \in listed : \A j \in listed : j <= i].ID)
        ELSE LET user == RepoGetUserByUsername(eg_env, LocalPart(email))
             IN  IF user = Nil THEN Nil ELSE Ptr(user[1].ID)

\* the open merge requests a user is involved in and has not approved
UnresolvedMRs(userID) ==
    {i \in DOMAIN eg_env.open :
        /\ isUserInvolvedInMR(Ptr(eg_env.open[i]), userID)
        /\ ~\E k \in DOMAIN GatewayApprovals(eg_env.open[i].ProjectID, eg_env.open[i].IID) :
              GatewayApprovals(eg_env.open[i].ProjectID, eg_env.open[i].IID)[k].ID = userID}

AwAllApprovalsOk ==
    \A i \in DOMAIN eg_calls : eg_calls[i].name = "GetMergeRequestApprovals" => eg_calls[i].ok

\* C15: with all approval fetches succeeding, the MRCount of every returned
\* workload is the number of open merge requests its user is involved in
\* and has not approved, and its Commits the number of commits attributed
\* to its user.
C15_CountsAreExact ==
    (AwAllBatchOk /\ AwAllApprovalsOk) =>
        \A k \in DOMAIN eg_ret[1].value[1] :
            LET w == eg_ret[1].value[1][k] IN
            /\ w.MRCount = Cardinality(UnresolvedMRs(w.User.ID))
            /\ w.Commits = Cardinality({i \in DOMAIN eg_env.commits :
                                           CommitOwner(eg_env.commits[i]) = Ptr(w.User.ID)})

\* Bob approved one of the two merge requests he is assigned to and has two
\* commits, both resolved by handle
C15_Witness ==
    /\ AwAllBatchOk /\ AwAllApprovalsOk
    /\ Len(eg_env.open) = 2
    /\ \E k \in DOMAIN eg_ret[1].value[1] :
        /\ eg_ret[1].value[1][k] = UserWorkload(Bob, 1, 2)
        /\ Cardinality({i \in DOMAIN eg_env.open :
                          isUserInvolvedInMR(Ptr(eg_env.open[i]), 2)}) = 2
    /\ Bob \notin {eg_env.allUsers[i] : i \in DOMAIN eg_env.allUsers}


(***************************************************************************)
(* AnalyzeActiveMRs and AnalyzeMyReviewWorkload: both fetch the approvals  *)
(* of the relevant merge requests with fetchMRApprovals, whose tasks run   *)
(* as in SpecFetch (FetchGo, FetchTask..., FetchWait) while the entry      *)
(* point waits; eg_calls also gets an entry for the batch as a whole.      *)
(***************************************************************************)
\* domain.UserWorkload with ActiveMRs
ActiveWorkload(user, mrCount, activeMRs) ==
    [ActiveMRs |-> activeMRs] @@ UserWorkload(user, mrCount, 0)

\* Go's m[k] for a map of slices: the nil slice for a missing key
MapGetSlice(m, k) == IF k \in DOMAIN m THEN m[k] ELSE <<>>

\* the merge requests of mrs the user is involved in, in order
RECURSIVE RelevantFrom(_, _, _)
RelevantFrom(mrs, userID, i) ==
    IF i > Len(mrs) THEN <<>>
    ELSE IF isUserInvolvedInMR(Ptr(mrs[i]), userID)
    THEN <<mrs[i]>> \o RelevantFrom(mrs, userID, i + 1)
    ELSE RelevantFrom(mrs, userID, i + 1)

\* lines 133-138 and 178-183: the relevant merge requests whose approvals, as
\* approvalsMap[mr.IID] holds them, do not list the user
RECURSIVE ActiveFrom(_, _, _, _)
ActiveFrom(relevant, approvalsMap, userID, i) ==
    IF i > Len(relevant) THEN <<>>
    ELSE IF ~hasUserApprovedMR(MapGetSlice(approvalsMap, relevant[i].IID), userID)
    THEN <<relevant[i]>> \o ActiveFrom(relevant, approvalsMap, userID, i + 1)
    ELSE ActiveFrom(relevant, approvalsMap, userID, i + 1)

\* the call a.fetchMRApprovals(ctx, relevantMRs) begins
FetchStart(relevant) ==
    /\ fa_pc' = "spawn"
    /\ fa_mrs' = relevant
    /\ fa_fail' = {i \in DOMAIN relevant : MRKey(relevant[i]) \in eg_env.failApprovals}
    /\ fa_next' = 1
    /\ fa_task' = [i \in DOMAIN relevant |-> "new"]
    /\ fa_got' = [i \in DOMAIN relevant |-> <<>>]
    /\ fa_failed' = {}
    /\ fa_ctx' = FALSE
    /\ fa_gerr' = 0
    /\ fa_mu' = 0
    /\ fa_map' = EmptyMap
    /\ fa_ret' = Nil

\* the call of fetchMRApprovals is over, its group, mutex and map are gone
FetchEnd ==
    /\ fa_pc' = "idle"
    /\ fa_mrs' = <<>>
    /\ fa_fail' = {}
    /\ fa_next' = 0
    /\ fa_task' = <<>>
    /\ fa_got' = <<>>
    /\ fa_failed' = {}
    /\ fa_ctx' = FALSE
    /\ fa_gerr' = 0
    /\ fa_mu' = 0
    /\ fa_map' = <<>>
    /\ fa_ret' = Nil

ActiveMRsInit ==
    /\ EngineInit("AnalyzeActiveMRs", EngineEnvs({"none", "ListMergeRequests"}))
    /\ eg_env.allUsers = <<Bob, Alice>>

\* the loop over the team handles goes on with handle loc.ti, or ends
AaTeamNext(loc) ==
    /\ eg_loc' = loc
    /\ IF loc.ti <= Len(eg_env.team)
       THEN eg_pc' = "team" /\ UNCHANGED eg_ret
       ELSE eg_pc' = "returned" /\ eg_ret' = Ptr(Returned(Ptr(loc.workloads), "nil"))

\* line 107
AaListMergeRequests ==
    /\ eg_op = "AnalyzeActiveMRs" /\ eg_pc = "ListMergeRequests"
    /\ IF eg_env.failCall = "ListMergeRequests"
       THEN /\ eg_calls' = Append(eg_calls, EngineCall("ListMergeRequests", <<>>, FALSE))
            /\ eg_pc' = "returned"
            /\ eg_ret' = Ptr(Returned(Nil, "failed to get merge requests"))
            /\ UNCHANGED eg_loc
       ELSE /\ eg_calls' = Append(eg_calls, EngineCall("ListMergeRequests", <<>>, TRUE))
            /\ AaTeamNext([eg_loc EXCEPT !.mrs = eg_env.open, !.ti = 1])
    /\ UNCHANGED <<eg_op, eg_env, faVars>>
    /\ UNCHANGED egOthers

\* lines 114-126: the lookup of the next handle, the relevant merge requests
\* and the start of fetchMRApprovals
AaTeamLookup ==
    /\ eg_op = "AnalyzeActiveMRs" /\ eg_pc = "team"
    /\ LET username == eg_env.team[eg_loc.ti]
           user == RepoGetUserByUsername(eg_env, username)
       IN  /\ eg_calls' = Append(eg_calls, EngineCall("GetUserByUsername", username, user # Nil))
           /\ IF user = Nil
              THEN /\ AaTeamNext([eg_loc EXCEPT !.ti = @ + 1])
                   /\ UNCHANGED faVars
              ELSE LET relevant == RelevantFrom(eg_loc.mrs, user[1].ID, 1) IN
                   /\ eg_loc' = [eg_loc EXCEPT !.user = user, !.relevant = relevant]
                   /\ eg_pc' = "fetching"
                   /\ FetchStart(relevant)
                   /\ UNCHANGED eg_ret
    /\ UNCHANGED <<eg_op, eg_env>>
    /\ UNCHANGED egOthers

\* lines 126-144: fetchMRApprovals has returned
AaFetched ==
    /\ eg_op = "AnalyzeActiveMRs" /\ eg_pc = "fetching"
    /\ fa_pc = "returned"
    /\ eg_calls' = Append(eg_calls, EngineCall("fetchMRApprovals", <<>>, fa_ret[1].err = 0))
    /\ IF fa_ret[1].err # 0
       THEN AaTeamNext([eg_loc EXCEPT !.ti = @ + 1])
       ELSE LET activeMRs == ActiveFrom(eg_loc.relevant, fa_ret[1].map[1], eg_loc.user[1].ID, 1)
            IN  AaTeamNext([eg_loc EXCEPT
                    !.workloads = Append(@, ActiveWorkload(eg_loc.user[1], Len(activeMRs), activeMRs)),
                    !.ti = @ + 1])
    /\ FetchEnd
    /\ UNCHANGED <<eg_op, eg_env>>
    /\ UNCHANGED egOthers

InitActiveMRs == ActiveMRsInit /\ IdleBut("eg")
NextActiveMRs ==
    \/ NewApp
    \/ AaListMergeRequests
    \/ AaTeamLookup
    \/ AaFetched
    \/ FetchGo
    \/ \E i \in DOMAIN fa_task : FetchTaskGot(i)
    \/ \E i \in DOMAIN fa_task : FetchTaskFailed(i)
    \/ \E i \in DOMAIN fa_task : FetchTaskLock(i)
    \/ \E i \in DOMAIN fa_task : FetchTaskWrite(i)
    \/ \E i \in DOMAIN fa_task : FetchTaskUnlock(i)
    \/ FetchWait
SpecActiveMRs == InitActiveMRs /\ [][NextActiveMRs]_vars


\* the open merge requests at the positions S, in order
OpenAt(S) == [k \in 1..Cardinality(S) |-> eg_env.open[Ascending(S)[k]]]

AaAllFetchesOk ==
    /\ EngineReturned
    /\ eg_env.failCall = "none"
    /\ eg_env.failApprovals = {}

\* the team handles that resolve, in order
ResolvedHandles ==
    LET isResolved(h) == RepoGetUserByUsername(eg_env, h) # Nil
    IN  SelectSeq(eg_env.team, isResolved)

\* C16: with all approval fetches succeeding, AnalyzeActiveMRs reports for
\* every resolvable team member the open merge requests the member is
\* involved in and has not approved, each judged by the approvals of its own
\* ProjectID and IID, and MRCount is their number, whatever the interleaving
\* of the parallel fetches.
C16_ActiveMRsByOwnApprovals ==
    AaAllFetchesOk =>
        /\ eg_ret[1].err = "nil"
        /\ Len(eg_ret[1].value[1]) = Len(ResolvedHandles)
        /\ \A k \in DOMAIN eg_ret[1].value[1] :
            LET w == eg_ret[1].value[1][k] IN
            /\ w.User.Username = ResolvedHandles[k]
            /\ w.ActiveMRs = OpenAt(UnresolvedMRs(w.User.ID))
            /\ w.MRCount = Len(w.ActiveMRs)

\* the part of C16 that does not depend on the key of the approvals map:
\* every resolvable member is reported, with MRCount = len(ActiveMRs) and
\* ActiveMRs among the merge requests the member is involved in
C16_ReportedShape ==
    AaAllFetchesOk =>
        /\ Len(eg_ret[1].value[1]) = Len(ResolvedHandles)
        /\ \A k \in DOMAIN eg_ret[1].value[1] :
            LET w == eg_ret[1].value[1][k] IN
            /\ w.MRCount = Len(w.ActiveMRs)
            /\ \A j \in DOMAIN w.ActiveMRs :
                  isUserInvolvedInMR(Ptr(w.ActiveMRs[j]), w.User.ID)

\* two open merge requests of different projects share IID 1 and Bob is
\* assigned to both
C16_SharedIIDState ==
    /\ AaAllFetchesOk
    /\ Len(eg_env.open) = 2
    /\ eg_env.open[1].IID = eg_env.open[2].IID
    /\ eg_env.team = << <<"b">>, <<"a">> >>
    /\ eg_env.failUsers = {}

\* ---------------------------------------------------------------------
\* AnalyzeMyReviewWorkload (app.go 151-190)
\* ---------------------------------------------------------------------

MyReviewWorkloadInit ==
    /\ EngineInit("AnalyzeMyReviewWorkload",
                  EngineEnvs({"none", "GetCurrentUser", "ListMergeRequests"}))
    /\ eg_env.team = <<>>
    /\ eg_env.failUsers = {}
    /\ eg_env.allUsers = <<Bob, Alice>>

\* lines 152-155, getCurrentUser
MwGetCurrentUser ==
    /\ eg_op = "AnalyzeMyReviewWorkload" /\ eg_pc = "GetCurrentUser"
    /\ IF eg_env.failCall = "GetCurrentUser"
       THEN /\ eg_calls' = Append(eg_calls, EngineCall("GetCurrentUser", <<>>, FALSE))
            /\ eg_pc' = "returned"
            /\ eg_ret' = Ptr(Returned(Nil, "failed to get current user"))
            /\ UNCHANGED eg_loc
       ELSE /\ eg_calls' = Append(eg_calls, EngineCall("GetCurrentUser", <<>>, TRUE))
            /\ eg_loc' = [eg_loc EXCEPT !.user = Ptr(eg_env.currentUser)]
            /\ eg_pc' = "ListMergeRequests"
            /\ UNCHANGED eg_ret
    /\ UNCHANGED <<eg_op, eg_env, faVars>>
    /\ UNCHANGED egOthers

\* lines 158-170: the list, the relevant merge requests and the start of
\* fetchMRApprovals
MwListMergeRequests ==
    /\ eg_op = "AnalyzeMyReviewWorkload" /\ eg_pc = "ListMergeRequests"
    /\ IF eg_env.failCall = "ListMergeRequests"
       THEN /\ eg_calls' = Append(eg_calls, EngineCall("ListMergeRequests", <<>>, FALSE))
            /\ eg_pc' = "returned"
            /\ eg_ret' = Ptr(Returned(Nil, "failed to get merge requests"))
            /\ UNCHANGED <<eg_loc, faVars>>
       ELSE LET relevant == RelevantFrom(eg_env.open, eg_loc.user[1].ID, 1) IN
            /\ eg_calls' = Append(eg_calls, EngineCall("ListMergeRequests", <<>>, TRUE))
            /\ eg_loc' = [eg_loc EXCEPT !.mrs = eg_env.open, !.relevant = relevant]
            /\ eg_pc' = "fetching"
            /\ FetchStart(relevant)
            /\ UNCHANGED eg_ret
    /\ UNCHANGED <<eg_op, eg_env>>
    /\ UNCHANGED egOthers

\* lines 170-189: fetchMRApprovals has returned; its error is returned to
\* the caller
MwFetched ==
    /\ eg_op = "AnalyzeMyReviewWorkload" /\ eg_pc = "fetching"
    /\ fa_pc = "returned"
    /\ eg_calls' = Append(eg_calls, EngineCall("fetchMRApprovals", <<>>, fa_ret[1].err = 0))
    /\ IF fa_ret[1].err # 0
       THEN /\ eg_ret' = Ptr(Returned(Nil, "failed to get MR approvals"))
            /\ UNCHANGED eg_loc
       ELSE LET activeMRs == ActiveFrom(eg_loc.relevant, fa_ret[1].map[1], eg_loc.user[1].ID, 1)
            IN  /\ eg_loc' = [eg_loc EXCEPT !.active = activeMRs]
                /\ eg_ret' = Ptr(Returned(
                        Ptr(ActiveWorkload(eg_loc.user[1], Len(activeMRs), activeMRs)), "nil"))
    /\ eg_pc' = "returned"
    /\ FetchEnd
    /\ UNCHANGED <<eg_op, eg_env>>
    /\ UNCHANGED egOthers

InitMyReviewWorkload == MyReviewWorkloadInit /\ IdleBut("eg")
NextMyReviewWorkload ==
    \/ NewApp
    \/ MwGetCurrentUser
    \/ MwListMergeRequests
    \/ MwFetched
    \/ FetchGo
    \/ \E i \in DOMAIN fa_task : FetchTaskGot(i)
    \/ \E i \in DOMAIN fa_task : FetchTaskFailed(i)
    \/ \E i \in DOMAIN fa_task : FetchTaskLock(i)
    \/ \E i \in DOMAIN fa_task : FetchTaskWrite(i)
    \/ \E i \in DOMAIN fa_task : FetchTaskUnlock(i)
    \/ FetchWait
SpecMyReviewWorkload == InitMyReviewWorkload /\ [][NextMyReviewWorkload]_vars

\* ---------------------------------------------------------------------
\* GetMergeRequestsWithStatus (app.go 401-442) and
\* GetMyReviewWorkloadWithStatus (app.go 484-503)
\* ---------------------------------------------------------------------

MaxStatusMRs == 3

workingDaysThreshold == 3

\* time.Weekday of an hour count: 0 is Sunday, 6 is Saturday
Weekday(t) == ((t \div 24) + 1) % 7

\* subtractWorkingDays: one calendar day back at a time, counting the days
\* that are neither Saturday nor Sunday
\* mutant: Saturdays and Sundays are counted too
RECURSIVE SubtractCalendarDaysFrom(_, _, _)
SubtractCalendarDaysFrom(result, subtractedDays, days) ==
    IF subtractedDays >= days THEN result
    ELSE SubtractCalendarDaysFrom(result - 24, subtractedDays + 1, days)

RECURSIVE SubtractWorkingDaysFrom(_, _, _)
SubtractWorkingDaysFrom(result, subtractedDays, days) ==
    IF subtractedDays >= days THEN result
    ELSE LET r == result - 24 IN
         IF Weekday(r) # 6 /\ Weekday(r) # 0
         THEN SubtractWorkingDaysFrom(r, subtractedDays + 1, days)
         ELSE SubtractWorkingDaysFrom(r, subtractedDays, days)

subtractWorkingDays(date, days) == SubtractWorkingDaysFrom(date, 0, days)

MergeRequestWithStatus(mr, approvals, approvalCount, isStalled, isCurrentBranch, isCurrentProject) ==
    [MergeRequest |-> mr, Approvals |-> approvals, ApprovalCount |-> approvalCount,
     IsStalled |-> isStalled, IsCurrentBranch |-> isCurrentBranch,
     IsCurrentProject |-> isCurrentProject]

\* mutant: a merge request updated exactly at the cut-off is stalled too
createMRWithStatusNotStrict(mr, approvals, currentProjectID, currentBranch, threeWorkingDaysAgo) ==
    MergeRequestWithStatus(mr, approvals, Len(approvals),
        mr.UpdatedAt <= threeWorkingDaysAgo,
        currentBranch # "" /\ mr.SourceBranch = currentBranch,
        currentProjectID # 0 /\ mr.ProjectID = currentProjectID)

createMRWithStatus(mr, approvals, currentProjectID, currentBranch, threeWorkingDaysAgo) ==
    MergeRequestWithStatus(mr, approvals, Len(approvals),
        mr.UpdatedAt < threeWorkingDaysAgo,
        currentBranch # "" /\ mr.SourceBranch = currentBranch,
        currentProjectID # 0 /\ mr.ProjectID = currentProjectID)

\* mutant: drafts are relevant too
isMRRelevantWithDrafts(mr, currentUser) ==
    IF mr.Author # Nil /\ mr.Author[1].ID = currentUser.ID THEN FALSE
    ELSE \/ mr.Assignee # Nil /\ mr.Assignee[1].ID = currentUser.ID
         \/ IsReviewerFrom(mr.Reviewers, currentUser.ID, 1)

isMRRelevantForReview(mr, currentUser) ==
    IF mr.Draft THEN FALSE
    ELSE IF mr.Author # Nil /\ mr.Author[1].ID = currentUser.ID THEN FALSE
    ELSE \/ mr.Assignee # Nil /\ mr.Assignee[1].ID = currentUser.ID
         \/ IsReviewerFrom(mr.Reviewers, currentUser.ID, 1)

SortMergeRequestsByPriority(mrs) == SortSlice("priority", mrs)

\* what GetCurrentProjectInfo yields: an error, or a project and a branch
ProjectInfos == {<<0, "">>, <<1, "feat">>, <<2, "main">>}

StatusEnvs(failCalls) ==
    {[team |-> <<>>, failUsers |-> {}, allUsers |-> <<Bob, Alice>>,
      commits |-> EngineCommits, failCall |-> fc, open |-> open,
      failApprovals |-> fa, currentUser |-> cu, projectID |-> pi[1],
      branch |-> pi[2], now |-> EngineNow] :
        fc \in failCalls, open \in DistinctSeqsUpTo(EngineMRPool, MaxStatusMRs),
        fa \in {{}} \cup {{<<p, i>>} : p \in 1..2, i \in 1..4},
        cu \in {Bob, Alice}, pi \in ProjectInfos}

\* lines 407-414 and 520-527: the project information, from git and the
\* gateway, and the cut-off for stalled merge requests
StatusProjectInfo(loc) ==
    [loc EXCEPT !.currentProjectID = eg_env.projectID,
                !.currentBranch = eg_env.branch,
                !.threeWorkingDaysAgo = subtractWorkingDays(eg_env.now, workingDaysThreshold)]

\* the sorted list is returned
StatusReturn(loc) ==
    /\ eg_loc' = loc
    /\ eg_pc' = "returned"
    /\ eg_ret' = Ptr(Returned(Ptr(SortMergeRequestsByPriority(loc.out)), "nil"))

\* ---- GetMergeRequestsWithStatus

MergeRequestsWithStatusInit ==
    /\ EngineInit("GetMergeRequestsWithStatus", StatusEnvs({"none", "ListMergeRequests"}))
    /\ eg_env.currentUser = Bob

\* the loop over the merge requests goes on with loc.mi, or ends
GsNext(loc) ==
    IF loc.mi <= Len(loc.mrs)
    THEN eg_loc' = loc /\ eg_pc' = "approvals" /\ UNCHANGED eg_ret
    ELSE StatusReturn(loc)

\* lines 402-405
GsListMergeRequests ==
    /\ eg_op = "GetMergeRequestsWithStatus" /\ eg_pc = "ListMergeRequests"
    /\ IF eg_env.failCall = "ListMergeRequests"
       THEN /\ eg_calls' = Append(eg_calls, EngineCall("ListMergeRequests", <<>>, FALSE))
            /\ eg_pc' = "returned"
            /\ eg_ret' = Ptr(Returned(Nil, "failed to get merge requests"))
            /\ UNCHANGED eg_loc
       ELSE /\ eg_calls' = Append(eg_calls, EngineCall("ListMergeRequests", <<>>, TRUE))
            /\ eg_loc' = [eg_loc EXCEPT !.mrs = eg_env.open]
            /\ eg_pc' = "projectInfo"
            /\ UNCHANGED eg_ret
    /\ UNCHANGED <<eg_op, eg_env, faVars>>
    /\ UNCHANGED egOthers

\* lines 407-417
GsProjectInfo ==
    /\ eg_op = "GetMergeRequestsWithStatus" /\ eg_pc = "projectInfo"
    /\ eg_calls' = Append(eg_calls,
                          EngineCall("GetCurrentProjectInfo", <<>>, eg_env.projectID # 0))
    /\ GsNext(StatusProjectInfo([eg_loc EXCEPT !.mi = 1]))
    /\ UNCHANGED <<eg_op, eg_env, faVars>>
    /\ UNCHANGED egOthers

\* lines 419-438: a failed fetch leaves the empty list
GsApprovals ==
    /\ eg_op = "GetMergeRequestsWithStatus" /\ eg_pc = "approvals"
    /\ LET mr == eg_loc.mrs[eg_loc.mi]
           fetched == RepoGetMergeRequestApprovals(eg_env, mr.ProjectID, mr.IID)
           approvals == IF fetched = Nil THEN <<>> ELSE fetched[1]
       IN  /\ eg_calls' = Append(eg_calls,
                              EngineCall("GetMergeRequestApprovals", MRKey(mr), fetched # Nil))
           /\ GsNext([eg_loc EXCEPT
                  !.out = Append(@, createMRWithStatus(mr, approvals, eg_loc.currentProjectID,
                                        eg_loc.currentBranch, eg_loc.threeWorkingDaysAgo)),
                  !.mi = @ + 1])
    /\ UNCHANGED <<eg_op, eg_env, faVars>>
    /\ UNCHANGED egOthers

\* ---- GetMyReviewWorkloadWithStatus

MyReviewStatusInit ==
    /\ EngineInit("GetMyReviewWorkloadWithStatus",
                  StatusEnvs({"none", "GetCurrentUser", "ListMergeRequests"}))

\* lines 540-543: merge requests that are not relevant are passed over
\* without a call
RECURSIVE RsAdvance(_)
RsAdvance(loc) ==
    IF loc.mi > Len(loc.mrs) THEN loc
    ELSE IF ~isMRRelevantForReview(loc.mrs[loc.mi], loc.user[1])
    THEN RsAdvance([loc EXCEPT !.mi = @ + 1])
    ELSE loc

\* the loop of filterAndEnrichMRsForReview goes on with loc.mi, or ends
RsNext(loc) ==
    IF loc.mi <= Len(loc.mrs)
    THEN eg_loc' = loc /\ eg_pc' = "approvals" /\ UNCHANGED eg_ret
    ELSE StatusReturn(loc)

\* mutant: the approvals are not looked at
RsEnrichAlways(loc, approvals) ==
    [loc EXCEPT
        !.out = Append(@, createMRWithStatus(loc.mrs[loc.mi], approvals, loc.currentProjectID,
                              loc.currentBranch, loc.threeWorkingDaysAgo)),
        !.mi = @ + 1]

\* lines 545-551: a merge request the user approved is passed over
RsEnrichUnlessApproved(loc, approvals) ==
    IF hasUserApprovedMR(approvals, loc.user[1].ID)
    THEN [loc EXCEPT !.mi = @ + 1]
    ELSE [loc EXCEPT
            !.out = Append(@, createMRWithStatus(loc.mrs[loc.mi], approvals, loc.currentProjectID,
                                  loc.currentBranch, loc.threeWorkingDaysAgo)),
            !.mi = @ + 1]

\* lines 485-488, getCurrentUser
RsGetCurrentUser ==
    /\ eg_op = "GetMyReviewWorkloadWithStatus" /\ eg_pc = "GetCurrentUser"
    /\ IF eg_env.failCall = "GetCurrentUser"
       THEN /\ eg_calls' = Append(eg_calls, EngineCall("GetCurrentUser", <<>>, FALSE))
            /\ eg_pc' = "returned"
            /\ eg_ret' = Ptr(Returned(Nil, "failed to get current user"))
            /\ UNCHANGED eg_loc
       ELSE /\ eg_calls' = Append(eg_calls, EngineCall("GetCurrentUser", <<>>, TRUE))
            /\ eg_loc' = [eg_loc EXCEPT !.user = Ptr(eg_env.currentUser)]
            /\ eg_pc' = "ListMergeRequests"
            /\ UNCHANGED eg_ret
    /\ UNCHANGED <<eg_op, eg_env, faVars>>
    /\ UNCHANGED egOthers

\* lines 490-493
RsListMergeRequests ==
    /\ eg_op = "GetMyReviewWorkloadWithStatus" /\ eg_pc = "ListMergeRequests"
    /\ IF eg_env.failCall = "ListMergeRequests"
       THEN /\ eg_calls' = Append(eg_calls, EngineCall("ListMergeRequests", <<>>, FALSE))
            /\ eg_pc' = "returned"
            /\ eg_ret' = Ptr(Returned(Nil, "failed to get merge requests"))
            /\ UNCHANGED eg_loc
       ELSE /\ eg_calls' = Append(eg_calls, EngineCall("ListMergeRequests", <<>>, TRUE))
            /\ eg_loc' = [eg_loc EXCEPT !.mrs = eg_env.open]
            /\ eg_pc' = "projectInfo"
            /\ UNCHANGED eg_ret
    /\ UNCHANGED <<eg_op, eg_env, faVars>>
    /\ UNCHANGED egOthers

\* lines 495-498 and 537-543
RsProjectInfo ==
    /\ eg_op = "GetMyReviewWorkloadWithStatus" /\ eg_pc = "projectInfo"
    /\ eg_calls' = Append(eg_calls,
                          EngineCall("GetCurrentProjectInfo", <<>>, eg_env.projectID # 0))
    /\ RsNext(RsAdvance(StatusProjectInfo([eg_loc EXCEPT !.mi = 1])))
    /\ UNCHANGED <<eg_op, eg_env, faVars>>
    /\ UNCHANGED egOthers

\* lines 545-551: the error of the fetch is dropped, the list it came with
\* is the nil slice, of length 0
RsApprovals ==
    /\ eg_op = "GetMyReviewWorkloadWithStatus" /\ eg_pc = "approvals"
    /\ LET mr == eg_loc.mrs[eg_loc.mi]
           fetched == RepoGetMergeRequestApprovals(eg_env, mr.ProjectID, mr.IID)
           approvals == IF fetched = Nil THEN <<>> ELSE fetched[1]
       IN  /\ eg_calls' = Append(eg_calls,
                              EngineCall("GetMergeRequestApprovals", MRKey(mr), fetched # Nil))
           /\ RsNext(RsAdvance(RsEnrichUnlessApproved(eg_loc, approvals)))
    /\ UNCHANGED <<eg_op, eg_env, faVars>>
    /\ UNCHANGED egOthers

StatusInit == MergeRequestsWithStatusInit \/ MyReviewStatusInit
InitStatus == StatusInit /\ IdleBut("eg")
NextStatus ==
    \/ NewApp
    \/ GsListMergeRequests
    \/ GsProjectInfo
    \/ GsApprovals
    \/ RsGetCurrentUser
    \/ RsListMergeRequests
    \/ RsProjectInfo
    \/ RsApprovals
SpecStatus == InitStatus /\ [][NextStatus]_vars

\* the approvals the gateway holds for a merge request
OwnApprovals(mr) == GatewayApprovals(mr.ProjectID, mr.IID)

\* the approvals fetched for a merge request, a failed fetch counting as
\* the empty list
ApprovalsOrEmpty(mr) ==
    IF MRKey(mr) \in eg_env.failApprovals THEN <<>> ELSE OwnApprovals(mr)

\* the positions of the open merge requests that are not drafts, are not
\* authored by the user, have the user as assignee or reviewer, and that the
\* user did not approve according to Approvals
ReviewPositions(userID, Approvals(_)) ==
    {i \in DOMAIN eg_env.open :
        LET mr == eg_env.open[i] IN
        /\ ~mr.Draft
        /\ ~(mr.Author # Nil /\ mr.Author[1].ID = userID)
        /\ \/ mr.Assignee # Nil /\ mr.Assignee[1].ID = userID
           \/ \E k \in DOMAIN mr.Reviewers : mr.Reviewers[k].ID = userID
        /\ ~\E k \in DOMAIN Approvals(mr) : Approvals(mr)[k].ID = userID}

\* a goes strictly before b: on the current branch, else of the current
\* project, else updated later
PriorityBefore(a, b) ==
    LET onBranch(mr) == eg_env.branch # "" /\ mr.SourceBranch = eg_env.branch
        inProject(mr) == eg_env.projectID # 0 /\ mr.ProjectID = eg_env.projectID
    IN  \/ onBranch(a) /\ ~onBranch(b)
        \/ onBranch(a) = onBranch(b) /\ inProject(a) /\ ~inProject(b)
        \/ onBranch(a) = onBranch(b) /\ inProject(a) = inProject(b)
              /\ a.UpdatedAt > b.UpdatedAt

\* out holds the open merge requests at the positions S, each exactly once
\* and in priority order
ReviewListIs(out, S) ==
    /\ \A i \in S : Cardinality({k \in DOMAIN out : out[k].MergeRequest = eg_env.open[i]}) = 1
    /\ \A k \in DOMAIN out : \E i \in S : out[k].MergeRequest = eg_env.open[i]
    /\ \A j, k \in DOMAIN out : j < k => ~PriorityBefore(out[k].MergeRequest, out[j].MergeRequest)

RsCompleted ==
    /\ EngineReturned
    /\ eg_op = "GetMyReviewWorkloadWithStatus"
    /\ eg_env.failCall = "none"

\* C17 as stated: GetMyReviewWorkloadWithStatus returns, each exactly once
\* and in priority order, precisely the open merge requests that are not
\* drafts, are not authored by the current user, have the current user as
\* assignee or among the reviewers, and have not been approved by the
\* current user.
C17_ReviewListExact ==
    RsCompleted =>
        /\ eg_ret[1].err = "nil"
        /\ ReviewListIs(eg_ret[1].value[1], ReviewPositions(eg_env.currentUser.ID, OwnApprovals))

\* C17, amended: GetMyReviewWorkloadWithStatus returns, each exactly once
\* and in priority order, precisely the open merge requests that are not
\* drafts, are not authored by the current user, have the current user as
\* assignee or among the reviewers, and that the current user has not
\* approved according to the approvals fetched for them, a failed fetch
\* counting as an empty approval list.
C17_ReviewListByFetchedApprovals ==
    RsCompleted =>
        /\ eg_ret[1].err = "nil"
        /\ ReviewListIs(eg_ret[1].value[1],
                        ReviewPositions(eg_env.currentUser.ID, ApprovalsOrEmpty))

\* Bob's list of three open merge requests: the one he approved is left
\* out, and the other two come back in the other order, the later update
\* first
C17_Witness ==
    /\ RsCompleted
    /\ eg_env.currentUser = Bob
    /\ eg_env.failApprovals = {}
    /\ Len(eg_env.open) = 3
    /\ \E i \in DOMAIN eg_env.open :
          /\ isMRRelevantForReview(eg_env.open[i], Bob)
          /\ \E k \in DOMAIN OwnApprovals(eg_env.open[i]) : OwnApprovals(eg_env.open[i])[k].ID = Bob.ID
    /\ Len(eg_ret[1].value[1]) = 2
    /\ \E i, j \in DOMAIN eg_env.open :
          /\ i < j
          /\ eg_ret[1].value[1][1].MergeRequest = eg_env.open[j]
          /\ eg_ret[1].value[1][2].MergeRequest = eg_env.open[i]

\* a draft and a merge request Alice wrote are left out of Alice's list
C17_WitnessDraftAndOwn ==
    /\ RsCompleted
    /\ eg_env.currentUser = Alice
    /\ \E i \in DOMAIN eg_env.open : eg_env.open[i].Draft
    /\ \E i \in DOMAIN eg_env.open : eg_env.open[i].Author = Ptr(Alice)
    /\ Len(eg_ret[1].value[1]) = 1

\* the fetch failed for a merge request Bob approved, and the merge request
\* is in Bob's list
C17_WitnessFailedFetch ==
    /\ RsCompleted
    /\ eg_env.currentUser = Bob
    /\ eg_env.failApprovals = {<<1, 1>>}
    /\ \E k \in DOMAIN eg_ret[1].value[1] :
          /\ MRKey(eg_ret[1].value[1][k].MergeRequest) = <<1, 1>>
          /\ eg_ret[1].value[1][k].ApprovalCount = 0

\* ---------------------------------------------------------------------
\* the five entry points that fetch approvals, together
\* ---------------------------------------------------------------------

InitEngine ==
    /\ \/ AnalyzeWorkloadInit
       \/ ActiveMRsInit
       \/ MyReviewWorkloadInit
       \/ StatusInit
    /\ IdleBut("eg")
NextEngine ==
    \/ NextAnalyzeWorkload
    \/ NextActiveMRs
    \/ MwGetCurrentUser
    \/ MwListMergeRequests
    \/ MwFetched
    \/ NextStatus
SpecEngine == InitEngine /\ [][NextEngine]_vars

\* an approval fetch of the entry point failed
ApprovalFetchFailed ==
    \E i \in DOMAIN eg_calls :
        /\ eg_calls[i].name \in {"GetMergeRequestApprovals", "fetchMRApprovals"}
        /\ ~eg_calls[i].ok

\* the open merge requests a user is involved in and has not approved, a
\* failed fetch counting as the empty list
UnresolvedOrEmpty(userID) ==
    {i \in DOMAIN eg_env.open :
        /\ isUserInvolvedInMR(Ptr(eg_env.open[i]), userID)
        /\ ~\E k \in DOMAIN ApprovalsOrEmpty(eg_env.open[i]) :
              ApprovalsOrEmpty(eg_env.open[i])[k].ID = userID}

\* the result of the entry point is the one an empty approval list in place
\* of every failed fetch gives
AsWithEmptyApprovals ==
    LET value == eg_ret[1].value IN
    CASE eg_op = "AnalyzeWorkload" ->
            \A k \in DOMAIN value[1] :
                value[1][k].MRCount = Cardinality(UnresolvedOrEmpty(value[1][k].User.ID))
      [] eg_op = "AnalyzeActiveMRs" ->
            /\ Len(value[1]) = Len(ResolvedHandles)
            /\ \A k \in DOMAIN value[1] :
                /\ value[1][k].ActiveMRs = OpenAt(UnresolvedOrEmpty(value[1][k].User.ID))
                /\ value[1][k].MRCount = Len(value[1][k].ActiveMRs)
      [] eg_op = "AnalyzeMyReviewWorkload" ->
            /\ value[1].ActiveMRs = OpenAt(UnresolvedOrEmpty(eg_env.currentUser.ID))
            /\ value[1].MRCount = Len(value[1].ActiveMRs)
      [] eg_op = "GetMergeRequestsWithStatus" ->
            /\ Len(value[1]) = Len(eg_env.open)
            /\ \A k \in DOMAIN value[1] :
                value[1][k].Approvals = ApprovalsOrEmpty(value[1][k].MergeRequest)
      [] eg_op = "GetMyReviewWorkloadWithStatus" ->
            /\ ReviewListIs(value[1], ReviewPositions(eg_env.currentUser.ID, ApprovalsOrEmpty))
            /\ \A k \in DOMAIN value[1] :
                value[1][k].Approvals = ApprovalsOrEmpty(value[1][k].MergeRequest)

\* C12: in every entry point that fetches approvals, a failed approval
\* fetch is not surfaced as an error: the operation completes, and with the
\* result an empty approval list for that merge request gives.
C12_ApprovalFailureNotSurfaced ==
    (EngineReturned /\ ApprovalFetchFailed) =>
        /\ eg_ret[1].err = "nil"
        /\ AsWithEmptyApprovals

\* the part of C12 that the two status entry points keep: the fetch that
\* failed leaves an empty approval list and no error
C12_StatusEntryPointsDegrade ==
    (EngineReturned /\ ApprovalFetchFailed
        /\ eg_op \in {"GetMergeRequestsWithStatus", "GetMyReviewWorkloadWithStatus"}) =>
        /\ eg_ret[1].err = "nil"
        /\ AsWithEmptyApprovals

\* AnalyzeMyReviewWorkload has returned the error of a failed approval fetch
C12_SurfacedState ==
    /\ EngineReturned
    /\ eg_op = "AnalyzeMyReviewWorkload"
    /\ ApprovalFetchFailed
    /\ eg_ret[1].err = "failed to get MR approvals"

\* ---------------------------------------------------------------------
\* buildEmailToUserIDMap and countUserCommits (app.go 603-646), as
\* AnalyzeWorkload runs them, over directories and commit logs of all shapes
\* ---------------------------------------------------------------------

MaxCommitLog == 3

\* a second user with Alice's email
AliceTwin == [Dan EXCEPT !.Email = Alice.Email]

\* what GetAllUsers can return
CommitDirectories ==
    {<<>>, <<Alice, NoEmailUser>>, <<Bob, Alice>>, <<Alice, AliceTwin>>}

\* the author emails a commit can carry: of a listed user, of nobody, none,
\* and one with two '@'
CommitEmails ==
    {<<"a","@","x">>, <<"b","@","x">>, <<>>, <<"q","@","x">>, <<"b","@","x","@","y">>}

CommitEnvs ==
    {[team |-> << <<"b">> >>, failUsers |-> fu, allUsers |-> au, commits |-> commits,
      failCall |-> fc, open |-> open, failApprovals |-> {},
      currentUser |-> Bob, projectID |-> 0, branch |-> "", now |-> EngineNow] :
        fu \in {{}, {<<"b">>}}, au \in CommitDirectories,
        commits \in SeqsUpTo(CommitEmails, MaxCommitLog),
        fc \in {"none", "ListCommits"},
        open \in {<<>>, <<EngineMR(2, 1, Ptr(Alice), Ptr(Bob), <<>>, FALSE, 50, "main")>>}}

CommitCountInit ==
    /\ EngineInit("AnalyzeWorkload", CommitEnvs)

InitCommitCount == CommitCountInit /\ IdleBut("eg")
SpecCommitCount == InitCommitCount /\ [][NextAnalyzeWorkload]_vars

\* the email index as the directory defines it: every non-empty email of a
\* listed user, mapped to the ID of the last user listed with it
DirectoryIndex ==
    LET emails == {eg_env.allUsers[i].Email : i \in DOMAIN eg_env.allUsers} \ {<<>>}
        last(e) == CHOOSE i \in DOMAIN eg_env.allUsers :
                      /\ eg_env.allUsers[i].Email = e
                      /\ \A j \in DOMAIN eg_env.allUsers :
                            eg_env.allUsers[j].Email = e => j <= i
    IN  [e \in emails |-> eg_env.allUsers[last(e)].ID]

\* the part of an email before its first "@"
BeforeFirstAt(email) ==
    LET ats == {i \in DOMAIN email : email[i] = "@"}
    IN  IF ats = {} THEN email
        ELSE SubSeq(email, 1, (CHOOSE i \in ats : \A j \in ats : i <= j) - 1)

\* the user ID a commit's author email resolves to, if any
ResolvedAuthor(email) ==
    IF email = <<>> THEN Nil
    ELSE IF email \in DOMAIN DirectoryIndex THEN Ptr(DirectoryIndex[email])
    ELSE LET user == RepoGetUserByUsername(eg_env, BeforeFirstAt(email))
         IN  IF user = Nil THEN Nil ELSE Ptr(user[1].ID)

\* the commits countUserCommits has gone through
CommitsSeen == 1..(eg_loc.ci - 1)

\* the emails among them that had to be looked up by handle
LookedUpEmails ==
    {eg_env.commits[i] : i \in CommitsSeen} \ (DOMAIN DirectoryIndex \cup {<<>>})

RECURSIVE SumOfCounts(_, _)
SumOfCounts(m, keys) ==
    IF keys = {} THEN 0
    ELSE LET k == CHOOSE x \in keys : TRUE
         IN  m[k] + SumOfCounts(m, keys \ {k})

\* countUserCommits is over, without an error
CommitsCounted ==
    /\ eg_op = "AnalyzeWorkload"
    /\ eg_pc \in {"ListMergeRequests", "team", "approvals", "returned"}
    /\ \E i \in DOMAIN eg_calls : eg_calls[i].name = "ListCommits" /\ eg_calls[i].ok

\* C21: after buildEmailToUserIDMap and countUserCommits every commit with
\* a non-empty author email of the index is counted for the user ID the
\* index maps the email to, N commits of one email adding N to that one ID;
\* users without an email are not in the index, commits without an author
\* email count for nobody, and the counts add up to the number of commits
\* whose author was resolved.
C21_CommitsAttributedByIndex ==
    CommitsCounted =>
        /\ <<>> \notin DOMAIN eg_loc.index
        /\ \A e \in DOMAIN DirectoryIndex :
              e \in DOMAIN eg_loc.index /\ eg_loc.index[e] = DirectoryIndex[e]
        /\ \A u \in 1..4 :
              MapGetInt(eg_loc.userCommits, u) =
                  Cardinality({i \in DOMAIN eg_env.commits :
                                  ResolvedAuthor(eg_env.commits[i]) = Ptr(u)})
        /\ DOMAIN eg_loc.userCommits \subseteq 1..4
        /\ SumOfCounts(eg_loc.userCommits, DOMAIN eg_loc.userCommits) =
              Cardinality({i \in DOMAIN eg_env.commits :
                              ResolvedAuthor(eg_env.commits[i]) # Nil})

\* three commits, two of Alice's email and one without an email, with two
\* users listed under that email: both commits count for the one listed last
C21_Witness ==
    /\ CommitsCounted
    /\ eg_env.allUsers = <<Alice, AliceTwin>>
    /\ eg_env.commits = << <<"a","@","x">>, <<>>, <<"a","@","x">> >>
    /\ eg_loc.userCommits = MapPut(EmptyMap, AliceTwin.ID, 2)

\* a user without an email is listed, and is not in the index
C21_WitnessNoEmail ==
    /\ CommitsCounted
    /\ eg_env.allUsers = <<Alice, NoEmailUser>>
    /\ DOMAIN eg_loc.index = {Alice.Email}
    /\ Len(eg_env.commits) = 3

\* the lookups by handle countUserCommits has made: the GetUserByUsername
\* calls between ListCommits and ListMergeRequests
CommitLookups ==
    {i \in DOMAIN eg_calls :
        /\ eg_calls[i].name = "GetUserByUsername"
        /\ \E j \in 1..(i - 1) : eg_calls[j].name = "ListCommits"
        /\ ~\E j \in 1..(i - 1) : eg_calls[j].name = "ListMergeRequests"}

CountingCommits ==
    /\ eg_op = "AnalyzeWorkload"
    /\ \E i \in DOMAIN eg_calls : eg_calls[i].name = "ListCommits" /\ eg_calls[i].ok

\* C28: at every point of countUserCommits, the index is the directory's
\* index plus the looked-up emails that resolved, each under the ID of the
\* user whose handle is the part before the first "@"; every successful
\* lookup is for another email, every failed one is for a commit that is
\* counted for nobody, and the pass ends without an error.
C28_LookupMemoizedOrSkipped ==
    CountingCommits =>
        /\ DOMAIN eg_loc.index =
              DOMAIN DirectoryIndex \cup {e \in LookedUpEmails : ResolvedAuthor(e) # Nil}
        /\ \A e \in DOMAIN eg_loc.index : Ptr(eg_loc.index[e]) = ResolvedAuthor(e)
        /\ \A i \in CommitLookups :
              \E e \in LookedUpEmails : eg_calls[i].arg = BeforeFirstAt(e)
        /\ Cardinality({i \in CommitLookups : eg_calls[i].ok}) =
              Cardinality({e \in LookedUpEmails : ResolvedAuthor(e) # Nil})
        /\ Cardinality({i \in CommitLookups : ~eg_calls[i].ok}) =
              Cardinality({i \in CommitsSeen :
                              /\ eg_env.commits[i] \in LookedUpEmails
                              /\ ResolvedAuthor(eg_env.commits[i]) = Nil})
        /\ \A u \in 1..4 :
              MapGetInt(eg_loc.userCommits, u) =
                  Cardinality({i \in CommitsSeen : ResolvedAuthor(eg_env.commits[i]) = Ptr(u)})
        /\ EngineReturned => eg_ret[1].err = "nil"

\* C28, the step: an entry of the index is never changed or removed
C28_IndexEntriesKept ==
    [][\A e \in DOMAIN eg_loc.index :
          e \in DOMAIN eg_loc'.index /\ eg_loc'.index[e] = eg_loc.index[e]]_vars

\* Bob is not listed; of three commits with his email the first is looked
\* up and the other two are counted from the index
C28_Witness ==
    /\ CommitsCounted
    /\ eg_env.allUsers = <<>>
    /\ eg_env.failUsers = {}
    /\ eg_env.commits = << <<"b","@","x">>, <<"b","@","x">>, <<"b","@","x">> >>
    /\ Cardinality(CommitLookups) = 1
    /\ eg_loc.userCommits = MapPut(EmptyMap, Bob.ID, 3)

\* the lookup fails for both commits of an unknown author: two lookups,
\* nothing in the index, nothing counted, no error
C28_WitnessFailed ==
    /\ EngineReturned
    /\ CountingCommits
    /\ eg_env.commits = << <<"q","@","x">>, <<"q","@","x">> >>
    /\ Cardinality(CommitLookups) = 2
    /\ eg_loc.index = DirectoryIndex
    /\ eg_loc.userCommits = EmptyMap
    /\ eg_ret[1].err = "nil"

\* an email with two "@" is looked up by the part before the first
C28_WitnessTwoAts ==
    /\ CommitsCounted
    /\ eg_env.commits = << <<"b","@","x","@","y">> >>
    /\ eg_env.failUsers = {}
    /\ eg_loc.userCommits = MapPut(EmptyMap, Bob.ID, 1)

\* ---------------------------------------------------------------------
\* SuggestAssigneeAndReviewer on a team one larger than the insertion sort
\* takes
\* ---------------------------------------------------------------------

LargeTeamSize == maxInsertion + 1

LargeUser(i) == User(i, Itoa(i), StatusAvailable)

\* all members have the same counts but one
LargeWorkloads(p, common, other) ==
    [i \in 1..LargeTeamSize |->
        IF i = p THEN UserWorkload(LargeUser(i), other[1], other[2])
        ELSE UserWorkload(LargeUser(i), common[1], common[2])]

LargeMRs ==
    {MergeRequest(1, 1, a, Nil, <<>>, FALSE) :
        a \in {Nil, Ptr(LargeUser(1)), Ptr(LargeUser(7)), Ptr(LargeUser(LargeTeamSize))}}

SuggestLargeInit ==
    /\ sg_pc = "call"
    /\ sg_mr \in LargeMRs
    /\ \E p \in 1..LargeTeamSize : \E common \in SuggestCounts : \E other \in SuggestCounts :
            sg_workloads = LargeWorkloads(p, common, other)
    /\ sg_assignee = Nil
    /\ sg_reviewer = Nil
    /\ sg_err = ErrNone

InitSuggestLarge == SuggestLargeInit /\ IdleBut("sg")
SpecSuggestLarge == InitSuggestLarge /\ [][NextSuggest]_vars

\* the smallest element of a non-empty set of positions
FirstOf(S) == CHOOSE i \in S : \A j \in S : i <= j

\* the eligible members no eligible member has a greater score than
SgBestScored ==
    {i \in SgEligible :
        \A j \in SgEligible : ~ScoreGreater(SgScoreOf(sg_workloads[j]), SgScoreOf(sg_workloads[i]))}

\* the members the reviewer may be with the fewest merge requests, and of
\* those the ones with the greatest score: the ones two stable sorts, by
\* score and then by MRCount, put first
SgLeastLoaded ==
    LET least == {i \in SgReviewerEligible :
                     \A j \in SgReviewerEligible : sg_workloads[i].MRCount <= sg_workloads[j].MRCount}
    IN  {i \in least :
            \A j \in least : ~ScoreGreater(SgScoreOf(sg_workloads[j]), SgScoreOf(sg_workloads[i]))}

\* C22: ties are broken by input order: the assignee is the earliest of the
\* available non-author members with the greatest score, and the reviewer
\* the earliest of those that two stable sorts put first.
C22_TiesBrokenByInputOrder ==
    (SgDone /\ sg_err = ErrNone) =>
        /\ sg_assignee # Nil => sg_assignee[1] = sg_workloads[FirstOf(SgBestScored)].User
        /\ sg_reviewer # Nil => sg_reviewer[1] = sg_workloads[FirstOf(SgLeastLoaded)].User

\* the part of C22 about the assignee alone
C22_AssigneeIsEarliestOfBest ==
    (SgDone /\ sg_err = ErrNone /\ sg_assignee # Nil) =>
        sg_assignee[1] = sg_workloads[FirstOf(SgBestScored)].User

\* thirteen available members, the last with the greatest score and the
\* author of the merge request, the other twelve with equal scores
C22_LargeTieState ==
    /\ SgDone
    /\ Len(sg_workloads) = LargeTeamSize
    /\ sg_mr.Author = Ptr(LargeUser(LargeTeamSize))
    /\ SgBestScored = 1..maxInsertion
    /\ sg_assignee # Nil

\* ---------------------------------------------------------------------
\* SortMergeRequestsByPriority (app.go 371-398) as a function
\* ---------------------------------------------------------------------

MaxSortLen == 3
MaxUpdatedAt == 2

\* an enriched merge request with the two flags and the time of its update
PriorityEntry(updatedAt, isCurrentBranch, isCurrentProject) ==
    MergeRequestWithStatus(EngineMR(1, 1, Nil, Nil, <<>>, FALSE, updatedAt, "b"),
                           <<>>, 0, FALSE, isCurrentBranch, isCurrentProject)

PriorityEntries ==
    {PriorityEntry(t, cb, cp) : t \in 1..MaxUpdatedAt, cb \in BOOLEAN, cp \in BOOLEAN}

\* lists one longer than the insertion sort takes, of several patterns
LargePriorityLists ==
    {[i \in 1..LargeTeamSize |->
        PriorityEntry((i * k) % 5, (i + k) % m = 0, i % 2 = 0)] : k \in 1..4, m \in 2..4}

PriorityInit ==
    /\ fn_pc = "call"
    /\ fn_op = "SortMergeRequestsByPriority"
    /\ \E mrs \in SeqsUpTo(PriorityEntries, MaxSortLen) \cup LargePriorityLists :
            fn_arg = <<mrs>>
    /\ fn_out = Nil

CallSortMergeRequestsByPriority ==
    /\ fn_pc = "call" /\ fn_op = "SortMergeRequestsByPriority"
    /\ fn_out' = Ptr(SortMergeRequestsByPriority(fn_arg[1]))
    /\ fn_pc' = "done"
    /\ UNCHANGED <<fn_op, fn_arg>>
    /\ UNCHANGED fnOthers

InitPriority == PriorityInit /\ IdleBut("fn")
NextPriority == CallSortMergeRequestsByPriority
SpecPriority == InitPriority /\ [][NextPriority]_vars

FnDone(op) == fn_pc = "done" /\ fn_op = op

\* how often e occurs in the sequence q
Occurrences(q, e) == Cardinality({i \in DOMAIN q : q[i] = e})

\* C23: SortMergeRequestsByPriority returns a permutation of its input in
\* which every entry on the current branch precedes every entry that is
\* not, among entries with the same IsCurrentBranch those of the current
\* project precede the others, and among entries with the same two flags
\* UpdatedAt does not increase.
C23_PriorityOrder ==
    FnDone("SortMergeRequestsByPriority") =>
        LET in == fn_arg[1]
            out == fn_out[1]
        IN  /\ Len(out) = Len(in)
            /\ \A i \in DOMAIN in : Occurrences(out, in[i]) = Occurrences(in, in[i])
            /\ \A i, j \in DOMAIN out : i < j =>
                /\ ~(out[j].IsCurrentBranch /\ ~out[i].IsCurrentBranch)
                /\ out[i].IsCurrentBranch = out[j].IsCurrentBranch =>
                      ~(out[j].IsCurrentProject /\ ~out[i].IsCurrentProject)
                /\ (/\ out[i].IsCurrentBranch = out[j].IsCurrentBranch
                    /\ out[i].IsCurrentProject = out[j].IsCurrentProject) =>
                      out[i].MergeRequest.UpdatedAt >= out[j].MergeRequest.UpdatedAt

\* of three entries only the last is on the current branch, and it is the
\* oldest: it comes out first, before an entry of the current project
C23_Witness ==
    /\ FnDone("SortMergeRequestsByPriority")
    /\ fn_arg[1] = <<PriorityEntry(2, FALSE, FALSE), PriorityEntry(2, FALSE, TRUE),
                     PriorityEntry(1, TRUE, FALSE)>>
    /\ fn_out[1] = <<PriorityEntry(1, TRUE, FALSE), PriorityEntry(2, FALSE, TRUE),
                     PriorityEntry(2, FALSE, FALSE)>>

\* a list of thirteen entries that was not in order
C23_WitnessLarge ==
    /\ FnDone("SortMergeRequestsByPriority")
    /\ Len(fn_arg[1]) = LargeTeamSize
    /\ fn_out[1] # fn_arg[1]

\* ---------------------------------------------------------------------
\* subtractWorkingDays (app.go 716-728) and the stalled flag of
\* createMRWithStatus (app.go 578-597) as functions of the time
\* ---------------------------------------------------------------------

MaxWorkingDays == 6

\* points in time, in hours since 00:00 of a Monday: every day of the third
\* week, at midnight, in the morning and late in the evening
SampleTimes == {d * 24 + h : d \in 14..20, h \in {0, 10, 23}}

\* how long before now a merge request was updated, in hours
SampleAges == {1, 23, 24, 48, 71, 72, 73, 96, 97, 119, 120, 121, 144, 168}

WorkingDaysInit ==
    /\ fn_pc = "call"
    /\ fn_op = "subtractWorkingDays"
    /\ \E date \in SampleTimes : \E days \in 0..MaxWorkingDays : fn_arg = <<date, days>>
    /\ fn_out = Nil

CallSubtractWorkingDays ==
    /\ fn_pc = "call" /\ fn_op = "subtractWorkingDays"
    /\ fn_out' = Ptr(subtractWorkingDays(fn_arg[1], fn_arg[2]))
    /\ fn_pc' = "done"
    /\ UNCHANGED <<fn_op, fn_arg>>
    /\ UNCHANGED fnOthers

InitWorkingDays == WorkingDaysInit /\ IdleBut("fn")
NextWorkingDays == CallSubtractWorkingDays
SpecWorkingDays == InitWorkingDays /\ [][NextWorkingDays]_vars

\* the calendar day of a time, day 0 being a Monday
DayOf(t) == t \div 24

\* Monday to Friday
IsWorkingDay(day) == day % 7 \in 0..4

IsFriday(day) == day % 7 = 4

\* the number of working days among the calendar days from..(to - 1)
WorkingDaysBetween(from, to) == Cardinality({d \in from..(to - 1) : IsWorkingDay(d)})

\* C25: for days >= 1 subtractWorkingDays(date, days) returns a time on a
\* Monday to Friday, strictly earlier than date, such that the calendar
\* days from the result up to but excluding date hold exactly `days`
\* working days; one working day before a Monday, a Saturday or a Sunday is
\* the Friday before.
C25_WorkingDaysBack ==
    (FnDone("subtractWorkingDays") /\ fn_arg[2] >= 1) =>
        LET date == fn_arg[1]
            days == fn_arg[2]
            result == fn_out[1]
        IN  /\ result < date
            /\ IsWorkingDay(DayOf(result))
            /\ WorkingDaysBetween(DayOf(result), DayOf(date)) = days
            /\ (days = 1 /\ ~IsWorkingDay(DayOf(date) - 1)) =>
                  /\ IsFriday(DayOf(result))
                  /\ DayOf(date) - DayOf(result) <= 3

\* one working day before a Sunday morning is the Friday morning two days
\* earlier
C25_Witness ==
    /\ FnDone("subtractWorkingDays")
    /\ fn_arg = <<20 * 24 + 10, 1>>
    /\ fn_out = Ptr(18 * 24 + 10)

\* three working days before a Monday is the Wednesday before
C25_WitnessMonday ==
    /\ FnDone("subtractWorkingDays")
    /\ fn_arg = <<14 * 24, 3>>
    /\ fn_out = Ptr(9 * 24)

\* six working days back go over two weekends
C25_WitnessTwoWeekends ==
    /\ FnDone("subtractWorkingDays")
    /\ fn_arg[2] = 6
    /\ DayOf(fn_arg[1]) - DayOf(fn_out[1]) = 10

\* ---- the stalled flag

StalledInit ==
    /\ fn_pc = "call"
    /\ fn_op = "createMRWithStatus"
    /\ \E now \in SampleTimes : \E age \in SampleAges :
            fn_arg = <<EngineMR(1, 1, Nil, Nil, <<>>, FALSE, now - age, "feat"), now>>
    /\ fn_out = Nil

\* lines 415-417 and 497-498, the cut-off, and createMRWithStatus
CallCreateMRWithStatus ==
    /\ fn_pc = "call" /\ fn_op = "createMRWithStatus"
    /\ LET threeWorkingDaysAgo == subtractWorkingDays(fn_arg[2], workingDaysThreshold)
       IN  fn_out' = Ptr(createMRWithStatus(fn_arg[1], <<>>, 0, "", threeWorkingDaysAgo))
    /\ fn_pc' = "done"
    /\ UNCHANGED <<fn_op, fn_arg>>
    /\ UNCHANGED fnOthers

InitStalled == StalledInit /\ IdleBut("fn")
NextStalled == CallCreateMRWithStatus
SpecStalled == InitStalled /\ [][NextStalled]_vars

\* now minus three working days: the same time of the working day that has
\* three working days from it up to but excluding today
ThreeWorkingDaysBefore(now) ==
    LET day == CHOOSE d \in (DayOf(now) - 7)..(DayOf(now) - 1) :
                  IsWorkingDay(d) /\ WorkingDaysBetween(d, DayOf(now)) = 3
    IN  day * 24 + (now % 24)

\* C24: IsStalled is set exactly when UpdatedAt is strictly before now
\* minus three working days; a merge request updated seven calendar days
\* before now is stalled on whatever weekday now falls, and one updated an
\* hour before now is not.
C24_StalledExactly ==
    FnDone("createMRWithStatus") =>
        LET updatedAt == fn_arg[1].UpdatedAt
            now == fn_arg[2]
        IN  /\ fn_out[1].IsStalled = (updatedAt < ThreeWorkingDaysBefore(now))
            /\ updatedAt = now - 7 * 24 => fn_out[1].IsStalled
            /\ updatedAt = now - 1 => ~fn_out[1].IsStalled

\* on a Monday, a merge request updated five days earlier to the hour, the
\* Wednesday before, is not stalled
C24_Witness ==
    /\ FnDone("createMRWithStatus")
    /\ fn_arg[2] = 14 * 24 + 10
    /\ fn_arg[1].UpdatedAt = fn_arg[2] - 120
    /\ ~fn_out[1].IsStalled

\* updated seven days before a Saturday: stalled
C24_WitnessWeekOld ==
    /\ FnDone("createMRWithStatus")
    /\ DayOf(fn_arg[2]) % 7 = 5
    /\ fn_arg[1].UpdatedAt = fn_arg[2] - 168
    /\ fn_out[1].IsStalled

\* updated an hour before, just after midnight on a Monday: not stalled
C24_WitnessHourOld ==
    /\ FnDone("createMRWithStatus")
    /\ fn_arg[2] = 14 * 24
    /\ fn_arg[1].UpdatedAt = fn_arg[2] - 1
    /\ ~fn_out[1].IsStalled

\* ---------------------------------------------------------------------
\* Further properties of the webhook handler
\* ---------------------------------------------------------------------

WhDone == wh_pc = "done"

WhAccepted == wh_payload.Method = "POST" /\ wh_payload.Decodes

\* C26: UpdateMergeRequest is called only for merge_request events of merge
\* requests being opened that are not drafts and have no assignee; an
\* event of a draft, of a merge request with an assignee or of another
\* object kind is answered 200 without a gateway call.
C26_AssignsOnOpenOnly ==
    /\ WhUpdates # {} =>
          /\ wh_payload.ObjectKind = "merge_request"
          /\ wh_payload.State = "opened"
          /\ ~wh_payload.WorkInProgress
          /\ wh_payload.AssigneeID = 0
    /\ (/\ WhDone
        /\ WhAccepted
        /\ \/ wh_payload.ObjectKind # "merge_request"
           \/ wh_payload.WorkInProgress
           \/ wh_payload.AssigneeID # 0) =>
          wh_status = StatusOK /\ wh_calls = <<>>

\* the part of C26 the handler keeps: drafts, merge requests with an
\* assignee and other object kinds are answered 200 without a gateway call
C26_DraftOrAssignedSkipped ==
    (/\ WhDone
     /\ WhAccepted
     /\ \/ wh_payload.ObjectKind # "merge_request"
        \/ wh_payload.WorkInProgress
        \/ wh_payload.AssigneeID # 0) =>
        wh_status = StatusOK /\ wh_calls = <<>>

\* an event of a merged merge request has led to UpdateMergeRequest
C26_MergedAssignedState ==
    /\ WhDone
    /\ wh_payload.State = "merged"
    /\ WhUpdates # {}

\* C29: the handler never dereferences a nil suggestion: after an
\* error-free SuggestAssigneeAndReviewer, with a nil reviewer or a nil
\* assignee too, the request ends with an HTTP response.
C29_NoNilDereference ==
    /\ wh_pc # "panicked"
    /\ (WhDone /\ \E i \in DOMAIN wh_calls :
            wh_calls[i] = Call("SuggestAssigneeAndReviewer", "ok")) =>
          wh_status \in {StatusOK, StatusInternalServerError}

\* the suggester returned an assignee and no reviewer, without an error, and
\* the handler faulted on reviewer.ID
C29_NilReviewerState ==
    /\ wh_pc = "panicked"
    /\ wh_assignee # Nil
    /\ wh_reviewer = Nil
    /\ wh_status = 0

\* the only available member is the author: no assignee, no error, and the
\* handler faulted on assignee.ID
C29_NilAssigneeState ==
    /\ wh_pc = "panicked"
    /\ wh_assignee = Nil
    /\ wh_status = 0

(***************************************************************************)
(* batchGetUsers: one goroutine per element of userIDs, a WaitGroup, an    *)
(* error channel with len(userIDs) slots, and a mutex around the write to  *)
(* the result map.  GetMergeRequest passes the author, the assignee and    *)
(* the reviewers, so an ID may occur more than once.  bu_fail holds the    *)
(* positions whose getUser fails.                                          *)
(***************************************************************************)
MaxUserBatch == 2
MaxUserID == 2

\* the user getUser returns for an ID
GatewayUserByID(id) == User(id, <<"u">> \o Itoa(id), StatusAvailable)

\* make(chan error, len(userIDs))
UsersChanCap == Len(bu_ids)

UsersInit ==
    /\ bu_pc = "spawn"
    /\ bu_ids \in SeqsUpTo(1..MaxUserID, MaxUserBatch)
    /\ bu_fail \in SUBSET (1..MaxUserBatch)
    /\ bu_fail \subseteq DOMAIN bu_ids
    /\ bu_next = 1
    /\ bu_task = [i \in DOMAIN bu_ids |-> "new"]
    /\ bu_got = [i \in DOMAIN bu_ids |-> Nil]
    /\ bu_wg = 0
    /\ bu_errChan = <<>>
    /\ bu_closed = FALSE
    /\ bu_mu = 0
    /\ bu_map = EmptyMap
    /\ bu_ret = Nil

\* wg.Add(1); go func(id int): the loop starts the next task, or ends
UsersGo ==
    /\ bu_pc = "spawn"
    /\ IF bu_next <= Len(bu_ids)
       THEN /\ bu_wg' = bu_wg + 1
            /\ bu_task' = [bu_task EXCEPT ![bu_next] = "spawned"]
            /\ bu_next' = bu_next + 1
            /\ UNCHANGED bu_pc
       ELSE /\ bu_pc' = "wait"
            /\ UNCHANGED <<bu_wg, bu_task, bu_next>>
    /\ UNCHANGED <<bu_ids, bu_fail, bu_got, bu_errChan, bu_closed, bu_mu, bu_map, bu_ret>>
    /\ UNCHANGED buOthers

\* r.getUser(ctx, id) succeeds
UsersTaskGot(i) ==
    /\ bu_task[i] = "spawned"
    /\ i \notin bu_fail
    /\ bu_got' = [bu_got EXCEPT ![i] = Ptr(GatewayUserByID(bu_ids[i]))]
    /\ bu_task' = [bu_task EXCEPT ![i] = "lock"]
    /\ UNCHANGED <<bu_pc, bu_ids, bu_fail, bu_next, bu_wg, bu_errChan, bu_closed, bu_mu,
                   bu_map, bu_ret>>
    /\ UNCHANGED buOthers

\* r.getUser fails
UsersTaskFailed(i) ==
    /\ bu_task[i] = "spawned"
    /\ i \in bu_fail
    /\ bu_task' = [bu_task EXCEPT ![i] = "send"]
    /\ UNCHANGED <<bu_pc, bu_ids, bu_fail, bu_next, bu_got, bu_wg, bu_errChan, bu_closed,
                   bu_mu, bu_map, bu_ret>>
    /\ UNCHANGED buOthers

\* mutant: the channel has one slot
UsersTaskSendOneSlot(i) ==
    /\ bu_task[i] = "send"
    /\ Len(bu_errChan) < 1
    /\ bu_errChan' = Append(bu_errChan, i)
    /\ bu_wg' = bu_wg - 1
    /\ bu_task' = [bu_task EXCEPT ![i] = "done"]
    /\ UNCHANGED <<bu_pc, bu_ids, bu_fail, bu_next, bu_got, bu_closed, bu_mu, bu_map, bu_ret>>
    /\ UNCHANGED buOthers

\* errChan <- err; return (and the deferred wg.Done()): the send waits for a
\* free slot of the channel
UsersTaskSend(i) ==
    /\ bu_task[i] = "send"
    /\ Len(bu_errChan) < UsersChanCap
    /\ bu_errChan' = Append(bu_errChan, i)
    /\ bu_wg' = bu_wg - 1
    /\ bu_task' = [bu_task EXCEPT ![i] = "done"]
    /\ UNCHANGED <<bu_pc, bu_ids, bu_fail, bu_next, bu_got, bu_closed, bu_mu, bu_map, bu_ret>>
    /\ UNCHANGED buOthers

\* mutant: the write is not guarded by the mutex
UsersTaskLockFree(i) ==
    /\ bu_task[i] = "lock"
    /\ bu_mu' = i
    /\ bu_task' = [bu_task EXCEPT ![i] = "write"]
    /\ UNCHANGED <<bu_pc, bu_ids, bu_fail, bu_next, bu_got, bu_wg, bu_errChan, bu_closed,
                   bu_map, bu_ret>>
    /\ UNCHANGED buOthers

\* mu.Lock()
UsersTaskLock(i) ==
    /\ bu_task[i] = "lock"
    /\ bu_mu = 0
    /\ bu_mu' = i
    /\ bu_task' = [bu_task EXCEPT ![i] = "write"]
    /\ UNCHANGED <<bu_pc, bu_ids, bu_fail, bu_next, bu_got, bu_wg, bu_errChan, bu_closed,
                   bu_map, bu_ret>>
    /\ UNCHANGED buOthers

\* users[id] = user
UsersTaskWrite(i) ==
    /\ bu_task[i] = "write"
    /\ bu_map' = MapPut(bu_map, bu_ids[i], bu_got[i][1])
    /\ bu_task' = [bu_task EXCEPT ![i] = "unlock"]
    /\ UNCHANGED <<bu_pc, bu_ids, bu_fail, bu_next, bu_got, bu_wg, bu_errChan, bu_closed,
                   bu_mu, bu_ret>>
    /\ UNCHANGED buOthers

\* mu.Unlock(), and the deferred wg.Done()
UsersTaskUnlock(i) ==
    /\ bu_task[i] = "unlock"
    /\ bu_mu' = 0
    /\ bu_wg' = bu_wg - 1
    /\ bu_task' = [bu_task EXCEPT ![i] = "done"]
    /\ UNCHANGED <<bu_pc, bu_ids, bu_fail, bu_next, bu_got, bu_errChan, bu_closed, bu_map,
                   bu_ret>>
    /\ UNCHANGED buOthers

\* wg.Wait() returns when the counter is zero
UsersWait ==
    /\ bu_pc = "wait"
    /\ bu_wg = 0
    /\ bu_pc' = "close"
    /\ UNCHANGED <<bu_ids, bu_fail, bu_next, bu_task, bu_got, bu_wg, bu_errChan, bu_closed,
                   bu_mu, bu_map, bu_ret>>
    /\ UNCHANGED buOthers

\* close(errChan)
UsersClose ==
    /\ bu_pc = "close"
    /\ bu_closed' = TRUE
    /\ bu_pc' = "recv"
    /\ UNCHANGED <<bu_ids, bu_fail, bu_next, bu_task, bu_got, bu_wg, bu_errChan, bu_mu,
                   bu_map, bu_ret>>
    /\ UNCHANGED buOthers

\* err := <-errChan: the first buffered error, or nil of the closed and
\* empty channel (an open and empty channel blocks); then the return
UsersReceive ==
    /\ bu_pc = "recv"
    /\ bu_errChan # <<>> \/ bu_closed
    /\ IF bu_errChan # <<>>
       THEN /\ bu_ret' = Ptr([map |-> Nil, err |-> Head(bu_errChan)])
            /\ bu_errChan' = Tail(bu_errChan)
       ELSE /\ bu_ret' = Ptr([map |-> Ptr(bu_map), err |-> 0])
            /\ UNCHANGED bu_errChan
    /\ bu_pc' = "returned"
    /\ UNCHANGED <<bu_ids, bu_fail, bu_next, bu_task, bu_got, bu_wg, bu_closed, bu_mu,
                   bu_map>>
    /\ UNCHANGED buOthers

InitUsers == UsersInit /\ IdleBut("bu")
NextUsers ==
    \/ UsersGo
    \/ \E i \in DOMAIN bu_task : UsersTaskGot(i)
    \/ \E i \in DOMAIN bu_task : UsersTaskFailed(i)
    \/ \E i \in DOMAIN bu_task : UsersTaskSend(i)
    \/ \E i \in DOMAIN bu_task : UsersTaskLock(i)
    \/ \E i \in DOMAIN bu_task : UsersTaskWrite(i)
    \/ \E i \in DOMAIN bu_task : UsersTaskUnlock(i)
    \/ UsersWait
    \/ UsersClose
    \/ UsersReceive

\* the Go scheduler runs every goroutine that can take a step
SpecUsers == InitUsers /\ [][NextUsers]_vars /\ WF_vars(NextUsers)

UsersAllDone == \A i \in DOMAIN bu_task : bu_task[i] = "done"

UsersInputIDs == {bu_ids[i] : i \in DOMAIN bu_ids}

\* no sender waits, the caller is past wg.Wait() only when every task has
\* finished, and the result is (nil, error) or the map of all input IDs
UsersSafe ==
    /\ \A i \in DOMAIN bu_task : bu_task[i] = "send" => Len(bu_errChan) < Len(bu_ids)
    /\ bu_pc \in {"close", "recv", "returned"} => UsersAllDone
    /\ bu_pc = "returned" =>
        LET r == bu_ret[1] IN
        IF bu_fail # {}
        THEN r.map = Nil /\ r.err \in bu_fail
        ELSE /\ r.err = 0
             /\ r.map # Nil
             /\ DOMAIN r.map[1] = UsersInputIDs
             /\ \A id \in UsersInputIDs : r.map[1][id] = GatewayUserByID(id)

\* C30: batchGetUsers terminates for every combination of successes and
\* failures: no task blocks on the send of its error, the caller proceeds
\* after all tasks have finished, and the result is (nil, error) if a fetch
\* failed and otherwise a map whose keys are exactly the input IDs, repeated
\* IDs included.
C30_BatchGetUsersTerminates == [] UsersSafe /\ <>(bu_pc = "returned")

\* every fetch failed, of an input with a repeated ID, and the call returned
C30_Witness ==
    /\ bu_pc = "returned"
    /\ Len(bu_ids) = MaxUserBatch
    /\ bu_fail = DOMAIN bu_ids
    /\ Cardinality(UsersInputIDs) < Len(bu_ids)
    /\ bu_ret[1].map = Nil

\* no fetch failed, an ID occurs twice, and the map has one key per ID
C30_WitnessRepeatedID ==
    /\ bu_pc = "returned"
    /\ bu_fail = {}
    /\ \E i, j \in DOMAIN bu_ids : i # j /\ bu_ids[i] = bu_ids[j]
    /\ DOMAIN bu_ret[1].map[1] = UsersInputIDs

(***************************************************************************)
(* The three parallel batches side by side: one call of fetchMRApprovals,  *)
(* of batchGetProjects or of batchGetUsers.                                *)
(***************************************************************************)
InitBatches == InitFetch \/ InitProjects \/ InitUsers
NextBatches == NextFetch \/ NextProjects \/ NextUsers
SpecBatches == InitBatches /\ [][NextBatches]_vars

\* the tasks between mu.Lock() and mu.Unlock()
InCriticalSection(task) == {i \in DOMAIN task : task[i] \in {"write", "unlock"}}

\* the tasks in the critical section hold the mutex, so there is at most one,
\* and a result exists only when every task has finished
BatchExclusive(task, mu, ret) ==
    /\ \A i \in InCriticalSection(task) : mu = i
    /\ Cardinality(InCriticalSection(task)) <= 1
    /\ ret # Nil => \A i \in DOMAIN task : task[i] = "done"

\* C27: in fetchMRApprovals, batchGetUsers and batchGetProjects each write to
\* the result map happens under the batch's mutex, no two tasks write at the
\* same time, and the caller reads the map after all tasks have finished.
C27_WritesUnderMutex ==
    /\ BatchExclusive(fa_task, fa_mu, fa_ret)
    /\ BatchExclusive(bu_task, bu_mu, bu_ret)
    /\ BatchExclusive(bp_task, bp_mu, bp_ret)

\* a task of batchGetUsers is about to write while another waits for the mutex
C27_Witness ==
    \E i, j \in DOMAIN bu_task :
        /\ bu_task[i] = "write" /\ bu_mu = i
        /\ bu_task[j] = "lock"

\* the same in fetchMRApprovals
C27_WitnessFetch ==
    \E i, j \in DOMAIN fa_task :
        /\ fa_task[i] = "write" /\ fa_mu = i
        /\ fa_task[j] = "lock"

\* the same in batchGetProjects
C27_WitnessProjects ==
    \E i, j \in DOMAIN bp_task :
        /\ bp_task[i] = "write" /\ bp_mu = i
        /\ bp_task[j] = "lock"

\* the map of batchGetUsers is returned, written by every task
C27_WitnessRead ==
    /\ bu_pc = "returned"
    /\ Len(bu_ids) = MaxUserBatch
    /\ bu_ret[1].map # Nil

====
